---------------------------- MODULE Spec2Model ----------------------------
(***************************************************************************)
(* Model of the analysis pipeline of route-match-bot:                      *)
(*   src/src/hooks/useAnalyzer.ts        (the useAnalyzer hook)            *)
(*   src/src/components/AnalysisResults.tsx (the diagnostics functions)    *)
(*                                                                         *)
(* Strings are sequences of one-character strings.  A JavaScript value     *)
(* that may be undefined is modelled by a sentinel (UndefinedStr) or by a  *)
(* record with a kind field.  A JavaScript number that is not an integer   *)
(* is kept exact: progress as a fraction num/den, a similarity as the      *)
(* triple dot, |a|^2, |b|^2 of the formula dot / (sqrt|a|^2 * sqrt|b|^2).  *)
(***************************************************************************)
EXTENDS Integers, Sequences, FiniteSets, TLC

(***************************************************************************)
(* Bounds of the model.                                                    *)
(***************************************************************************)
\* lines of the uploaded URL list (header line included)
MaxLines == 3
\* records of the uploaded answer corpus
MaxCorpus == 2
\* components of a fallback vector (1536 in the source, scaled down)
FallbackDim == 1
\* characters of a prompt or of a record's prompt, matcher specification
MaxStrLen == 2
\* records of the corpus, matcher specification
MaxItems == 2

(***************************************************************************)
(* Program constants.                                                      *)
(***************************************************************************)
\* lines.slice(1, 6)
SliceStart == 1
SliceEnd == 6
\* pageContent.substring(0, 300), gptResponse.substring(0, 300)
ResultTextLimit == 300
\* text.substring(0, 8000)
EmbeddingInputLimit == 8000

(***************************************************************************)
(* JavaScript string operations.                                           *)
(***************************************************************************)
\* the value undefined where a string is expected (a missing JSON field)
UndefinedStr == <<"undefined">>

\* x || ''
OrEmpty(x) == IF x = UndefinedStr THEN <<>> ELSE x

LowerChar(c) ==
    CASE c = "A" -> "a"
      [] c = "B" -> "b"
      [] c = "O" -> "o"
      [] c = "S" -> "s"
      [] c = "T" -> "t"
      [] OTHER -> c

\* String.prototype.toLowerCase
ToLowerCase(s) == [k \in 1..Len(s) |-> LowerChar(s[k])]

\* String.prototype.includes: t occurs in s as a contiguous substring
Includes(s, t) ==
    \E k \in 0..(Len(s) - Len(t)) : SubSeq(s, k + 1, k + Len(t)) = t

\* String.prototype.indexOf, 1-based; 0 when t does not occur in s
IndexOf(s, t) ==
    IF Includes(s, t)
    THEN CHOOSE k \in 1..(Len(s) - Len(t) + 1) :
            /\ SubSeq(s, k, k + Len(t) - 1) = t
            /\ \A j \in 1..(k - 1) : SubSeq(s, j, j + Len(t) - 1) # t
    ELSE 0

\* String.prototype.split with a non-empty string separator
RECURSIVE Split(_, _)
Split(s, sep) ==
    LET k == IndexOf(s, sep)
    IN IF k = 0
       THEN <<s>>
       ELSE <<SubSeq(s, 1, k - 1)>> \o Split(SubSeq(s, k + Len(sep), Len(s)), sep)

Whitespace == {" ", "\t", "\r"}

\* String.prototype.trim
RECURSIVE Trim(_)
Trim(s) ==
    IF s = <<>> THEN s
    ELSE IF s[1] \in Whitespace THEN Trim(Tail(s))
    ELSE IF s[Len(s)] \in Whitespace THEN Trim(SubSeq(s, 1, Len(s) - 1))
    ELSE s

\* s.replace(/c/g, ''): every occurrence of the character c removed
RemoveChar(s, c) ==
    LET Kept(x) == x # c
    IN SelectSeq(s, Kept)

\* s.substring(0, n)
SubstringTo(s, n) == SubSeq(s, 1, IF n < Len(s) THEN n ELSE Len(s))

(***************************************************************************)
(* extractRoutePrompt                                                      *)
(***************************************************************************)
TrainTimes == <<"t","r","a","i","n","-","t","i","m","e","s","/">>
ToSep == <<"-","t","o","-">>
Cheapest == <<"c","h","e","a","p","e","s","t"," ">>
ToWord == <<" ","t","o"," ">>
TrainTicketsOnline == <<" ","t","r","a","i","n"," ","t","i","c","k","e","t","s"," ","o","n","l","i","n","e">>

\* the positions at which /train-times\/([^\/]+)/ matches: the literal, then
\* at least one character that is not a slash
RouteMatchAt(url, p) ==
    /\ p + Len(TrainTimes) <= Len(url)
    /\ SubSeq(url, p, p + Len(TrainTimes) - 1) = TrainTimes
    /\ url[p + Len(TrainTimes)] # "/"

\* the longest run of characters other than c that starts at position k
RECURSIVE RunWithout(_, _, _)
RunWithout(s, k, c) ==
    IF k > Len(s) \/ s[k] = c THEN <<>>
    ELSE <<s[k]>> \o RunWithout(s, k + 1, c)

\* url.match(/train-times\/([^\/]+)/): <<TRUE, match[1]>> for the leftmost
\* match, <<FALSE, "">> for null
RouteMatch(url) ==
    IF \E p \in 1..Len(url) : RouteMatchAt(url, p)
    THEN LET p == CHOOSE q \in 1..Len(url) :
                     /\ RouteMatchAt(url, q)
                     /\ \A r \in 1..(q - 1) : ~RouteMatchAt(url, r)
         IN <<TRUE, RunWithout(url, p + Len(TrainTimes), "/")>>
    ELSE <<FALSE, <<>>>>

extractRoutePrompt(url) ==
    LET match == RouteMatch(url)
        route == ToLowerCase(RemoveChar(match[2], "/"))
    IN IF ~match[1] THEN <<>>
       ELSE IF ~Includes(route, ToSep) THEN <<>>
       ELSE LET parts == Split(route, ToSep)
            IN Cheapest \o parts[1] \o ToWord \o parts[2] \o TrainTicketsOnline

(***************************************************************************)
(* findMatchingGPTResponse                                                 *)
(***************************************************************************)
\* mutant of MatchTest: only the first character of the prompt is looked for
MatchTestFirstChar(itemPrompt, lowerPrompt) ==
    \/ Includes(itemPrompt, SubstringTo(lowerPrompt, 1))
    \/ Includes(lowerPrompt, itemPrompt)

\* the test of line 122 on the two lower-cased strings
MatchTest(itemPrompt, lowerPrompt) ==
    Includes(itemPrompt, lowerPrompt) \/ Includes(lowerPrompt, itemPrompt)

\* whether the record item passes the test for the prompt (lines 119-122)
ItemMatches(prompt, item) ==
    MatchTest(ToLowerCase(OrEmpty(item.prompt)), ToLowerCase(prompt))

\* the loop of lines 120-126 from record k on: the first record that passes
\* the test decides
RECURSIVE MatchFrom(_, _, _)
MatchFrom(prompt, jsonData, k) ==
    IF k > Len(jsonData) THEN <<>>
    ELSE IF ItemMatches(prompt, jsonData[k]) THEN OrEmpty(jsonData[k].response)
    ELSE MatchFrom(prompt, jsonData, k + 1)

\* mutant of findMatchingGPTResponse: the last record that passes decides
RECURSIVE MatchFromLast(_, _, _)
MatchFromLast(prompt, jsonData, k) ==
    IF k < 1 THEN <<>>
    ELSE IF ItemMatches(prompt, jsonData[k]) THEN OrEmpty(jsonData[k].response)
    ELSE MatchFromLast(prompt, jsonData, k - 1)

findMatchingLast(prompt, jsonData) == MatchFromLast(prompt, jsonData, Len(jsonData))

\* mutant of findMatchingGPTResponse: the first record is the default answer
findMatchingDefaultFirst(prompt, jsonData) ==
    LET found == MatchFrom(prompt, jsonData, 1)
    IN IF found = <<>> /\ jsonData # <<>>
       THEN OrEmpty(jsonData[1].response)
       ELSE found

findMatchingGPTResponse(prompt, jsonData) == MatchFrom(prompt, jsonData, 1)

(***************************************************************************)
(* parseCSV                                                                *)
(***************************************************************************)
\* lines.filter(line => line.trim())
NonBlank(lines) ==
    LET Truthy(line) == Trim(line) # <<>>
    IN SelectSeq(lines, Truthy)

\* Array.prototype.slice(from, to), 0-based and end-exclusive
Slice(seq, from, to) ==
    SubSeq(seq, from + 1, IF to < Len(seq) THEN to ELSE Len(seq))

\* line.split(',')[0].trim().replace(/"/g, '')
FirstField(line) == RemoveChar(Trim(Split(line, <<",">>)[1]), "\"")

\* mutant of parseCSV: every line after the header is taken (slice(1))
parseCSVAllRows(lines) ==
    LET kept == Slice(NonBlank(lines), SliceStart, Len(lines))
    IN [k \in 1..Len(kept) |-> FirstField(kept[k])]

\* parseCSV on the lines of the file's text (text.split('\n'))
parseCSV(lines) ==
    LET kept == Slice(NonBlank(lines), SliceStart, SliceEnd)
    IN [k \in 1..Len(kept) |-> FirstField(kept[k])]

(***************************************************************************)
(* scrapePageContent                                                       *)
(***************************************************************************)
SampleContentFor == <<"S","a","m","p","l","e"," ","c","o","n","t","e","n","t"," ","f","o","r"," ">>
PlaceholderTail == <<" ","-"," ","T","h","i","s"," ","w","o","u","l","d"," ","b","e"," ","t","h","e"," ","a","c","t","u","a","l"," ","p","a","g","e"," ","c","o","n","t","e","n","t"," ","i","n"," ","p","r","o","d","u","c","t","i","o","n",".">>

\* the text returned by the catch branch
Placeholder(url) == SampleContentFor \o url \o PlaceholderTail

RemovedTags == {"script", "style", "nav", "header", "footer"}

\* the text content of the body once the elements of the removed tags are
\* gone; a document is the sequence of its elements, each a tag and a text
RECURSIVE TextContent(_)
TextContent(doc) ==
    IF doc = <<>> THEN <<>>
    ELSE IF doc[1].tag \in RemovedTags THEN TextContent(Tail(doc))
    ELSE doc[1].text \o TextContent(Tail(doc))

\* whether the try block of scrapePageContent throws on the proxy's answer:
\* fetch rejects, response.json() rejects, or data is null
ScrapeFails(resp) == resp.kind \in {"networkError", "badJson", "nullBody"}

scrapePageContent(url, resp) ==
    IF ScrapeFails(resp) THEN Placeholder(url)
    ELSE Trim(TextContent(resp.contents))

(***************************************************************************)
(* generateEmbedding                                                       *)
(***************************************************************************)
\* what generateEmbedding returns: undefined, or an array of numbers
UndefinedEmbedding == [st |-> "undefined", vec |-> <<>>]
VectorEmbedding(v) == [st |-> "vector", vec |-> v]

\* a call of generateEmbedding: the input of its request and what it returned
NoEmbedding == [st |-> "none", vec |-> <<>>, input |-> <<>>]
PendingEmbedding(text) ==
    [st |-> "pending", vec |-> <<>>, input |-> SubstringTo(text, EmbeddingInputLimit)]
Settled(call, value) == [st |-> value.st, vec |-> value.vec, input |-> call.input]

\* whether the try block of generateEmbedding throws on the service's answer:
\* fetch rejects, !response.ok, response.json() rejects, data.data missing,
\* data.data[0] missing
EmbeddingFails(resp) ==
    \/ resp.kind \in {"networkError", "httpError", "badJson"}
    \/ ~resp.hasData
    \/ resp.data = <<>>

\* mutant of generateEmbedding: the catch block returns nothing
generateEmbeddingNoFallback(resp, rnd) ==
    IF EmbeddingFails(resp) THEN UndefinedEmbedding
    ELSE IF ~resp.data[1].hasEmbedding THEN UndefinedEmbedding
    ELSE VectorEmbedding(resp.data[1].embedding)

\* rnd is the vector drawn by Array.from({ length: 1536 }, () => Math.random() - 0.5)
generateEmbedding(resp, rnd) ==
    IF EmbeddingFails(resp) THEN VectorEmbedding(rnd)
    ELSE IF ~resp.data[1].hasEmbedding THEN UndefinedEmbedding
    ELSE VectorEmbedding(resp.data[1].embedding)

(***************************************************************************)
(* cosineSimilarity                                                        *)
(***************************************************************************)
NaN == [nan |-> TRUE, dot |-> 0, na |-> 0, nb |-> 0]

RECURSIVE SumTo(_, _)
SumTo(f, n) == IF n = 0 THEN 0 ELSE f[n] + SumTo(f, n - 1)

\* a.reduce((sum, val) => sum + val * val, 0)
SquaredMagnitude(a) == SumTo([k \in 1..Len(a) |-> a[k] * a[k]], Len(a))

\* mutant of cosineSimilarity: a vector of zero magnitude gives 0
cosineSimilarityZeroGuard(a, b) ==
    LET n == IF Len(a) < Len(b) THEN Len(a) ELSE Len(b)
        dot == SumTo([k \in 1..n |-> a[k] * b[k]], n)
        na == SquaredMagnitude(a)
        nb == SquaredMagnitude(b)
    IN IF Len(a) > Len(b) THEN NaN
       ELSE IF na = 0 \/ nb = 0 THEN [nan |-> FALSE, dot |-> 0, na |-> 1, nb |-> 1]
       ELSE [nan |-> FALSE, dot |-> dot, na |-> na, nb |-> nb]

\* mutant of cosineSimilarity: the square roots are missing
cosineSimilarityNoRoot(a, b) ==
    LET n == IF Len(a) < Len(b) THEN Len(a) ELSE Len(b)
        dot == SumTo([k \in 1..n |-> a[k] * b[k]], n)
        na == SquaredMagnitude(a)
        nb == SquaredMagnitude(b)
    IN IF Len(a) > Len(b) \/ na = 0 \/ nb = 0
       THEN NaN
       ELSE [nan |-> FALSE, dot |-> dot, na |-> na * na, nb |-> nb * nb]

\* dot / (sqrt(na) * sqrt(nb)); b[i] is undefined beyond the end of b, which
\* makes the dot product NaN, and 0 / 0 is NaN
cosineSimilarity(a, b) ==
    LET n == IF Len(a) < Len(b) THEN Len(a) ELSE Len(b)
        dot == SumTo([k \in 1..n |-> a[k] * b[k]], n)
        na == SquaredMagnitude(a)
        nb == SquaredMagnitude(b)
    IN IF Len(a) > Len(b) \/ na = 0 \/ nb = 0
       THEN NaN
       ELSE [nan |-> FALSE, dot |-> dot, na |-> na, nb |-> nb]

\* The pairs <<na, nb>> of whole numbers up to 12 with a square product for
\* which Math.sqrt(na) * Math.sqrt(nb) is, in IEEE 754 doubles, exactly the
\* root of the product.  For the other pairs with a square product it is
\* the double next to the root: Math.sqrt(2) * Math.sqrt(2) is
\* 2.0000000000000004.
ExactSqrtProducts ==
    { <<1, 1>>, <<1, 4>>, <<1, 9>>, <<4, 1>>, <<4, 4>>, <<4, 9>>,
      <<9, 1>>, <<9, 4>>, <<9, 9>>, <<11, 11>> }

\* the double dot / (Math.sqrt(na) * Math.sqrt(nb)) is exactly 1
IsOne(sim) ==
    /\ ~sim.nan
    /\ sim.dot > 0
    /\ sim.dot * sim.dot = sim.na * sim.nb
    /\ <<sim.na, sim.nb>> \in ExactSqrtProducts

\* the double is 1 or a neighbour of 1: the quotient is 1 in the reals, and
\* the rounding of the product and of the division moves it by 2^-52 at most
IsOneRounded(sim) ==
    /\ ~sim.nan
    /\ sim.dot > 0
    /\ sim.dot * sim.dot = sim.na * sim.nb

(***************************************************************************)
(* Inputs: the uploaded files and the answers of the two external          *)
(* services.                                                               *)
(***************************************************************************)
UrlMatched == <<"h","/">> \o TrainTimes \o <<"A","-","t","o","-","b","/">>
UrlNoSlug == <<"h","/","a","b">>
UrlOtherRoute == TrainTimes \o <<"b","-","t","o","-","a">>

\* the lines a URL list is made of: a quoted URL followed by a second field,
\* a bare URL after a space, a blank line
LineMatched == <<"\"">> \o UrlMatched \o <<"\"", ",", "x">>
LineNoSlug == <<" ">> \o UrlNoSlug
LineBlank == <<" ">>
LineOtherRoute == UrlOtherRoute \o <<",">>

CsvLines == {LineMatched, LineNoSlug, LineBlank}

RECURSIVE SeqsUpTo(_, _)
SeqsUpTo(S, n) ==
    IF n = 0 THEN {<<>>}
    ELSE LET shorter == SeqsUpTo(S, n - 1)
         IN shorter \cup {Append(q, x) : q \in {r \in shorter : Len(r) = n - 1}, x \in S}

\* a file whose text() rejects has readable = FALSE
CsvFiles ==
    {[readable |-> FALSE, lines |-> <<>>]}
        \cup {[readable |-> TRUE, lines |-> l] : l \in SeqsUpTo(CsvLines, MaxLines)}

\* the records of an answer corpus: one whose prompt is part of the derived
\* prompt up to case, and an unrelated one
ItemRelated == [prompt |-> <<"A"," ","T","O"," ","B">>, response |-> <<"X">>]
ItemUnrelated == [prompt |-> <<"z">>, response |-> <<"Y">>]

CorpusItems == {ItemRelated, ItemUnrelated}

\* what JSON.parse makes of the file: it throws ("invalid"), or yields a
\* value that for...of cannot iterate ("object"), or an array of records
JsonFiles ==
    {[kind |-> "invalid", items |-> <<>>], [kind |-> "object", items |-> <<>>]}
        \cup {[kind |-> "array", items |-> c] : c \in SeqsUpTo(CorpusItems, MaxCorpus)}

PageDocuments ==
    { << [tag |-> "script", text |-> <<"x">>],
         [tag |-> "p", text |-> <<" ","a"," ","b"," ">>] >> }

ProxyResponses ==
    {[kind |-> k, contents |-> <<>>] : k \in {"networkError", "badJson", "nullBody"}}
        \cup {[kind |-> "json", contents |-> d] : d \in PageDocuments}

\* Math.random() - 0.5 lies in [-0.5, 0.5); the components are kept as signs
RandomComponents == {-1, 0, 1}
RandomVectors == [1..FallbackDim -> RandomComponents]

ServiceVectors == {<<1>>, <<0, 1>>}

EmbeddingResponses ==
    {[kind |-> k, hasData |-> FALSE, data |-> <<>>] :
        k \in {"networkError", "httpError", "badJson", "json"}}
        \cup {[kind |-> "json", hasData |-> TRUE, data |-> <<>>]}
        \cup {[kind |-> "json", hasData |-> TRUE,
               data |-> <<[hasEmbedding |-> FALSE, embedding |-> <<>>]>>]}
        \cup {[kind |-> "json", hasData |-> TRUE,
               data |-> <<[hasEmbedding |-> TRUE, embedding |-> v]>>] : v \in ServiceVectors}

(***************************************************************************)
(* The state of the hook and of one invocation of startAnalysis.           *)
(***************************************************************************)
VARIABLES
    isAnalyzing,      \* useState(false)
    progress,         \* useState(0), a fraction num/den
    results,          \* useState([]), the published results
    steps,            \* useState([...]), the status of each stage
    csvFile,          \* the files handed to startAnalysis
    jsonFile,
    pc,               \* where the invocation of startAnalysis stands
    urls,             \* locals of startAnalysis
    jsonData,
    i,
    analysisResults,
    pageContent,
    routePrompt,
    gptResponse,
    embPage,          \* the two requests joined by Promise.all
    embGpt,
    progressLog,      \* history: the arguments of setProgress in this run
    outcome,          \* history: how the last run ended
    everyFallback,    \* history: every embedding request so far fell back
    scrapeWarned,     \* history: the scrape of the current URL failed
    runs,             \* history: the invocations of startAnalysis so far
    entered,          \* history: the stages this run has set to 'running'
    args,             \* the arguments and the result of a function called
    ret,              \* on its own (the function specifications)
    exportLog,        \* history: what each call of exportResults produced
    pc2               \* where a second, overlapping invocation stands

hookVars == <<isAnalyzing, progress, results, steps>>
fileVars == <<csvFile, jsonFile>>
itemVars == <<pageContent, routePrompt, gptResponse, embPage, embGpt>>
localVars == <<urls, jsonData, i, analysisResults, itemVars>>
historyVars == <<progressLog, outcome, everyFallback, scrapeWarned, runs, entered>>
callVars == <<args, ret, exportLog, pc2>>
vars == <<hookVars, fileVars, pc, localVars, historyVars, callVars>>

\* invocations of startAnalysis on one analyzer
MaxRuns == 2

StepIds == {"parse", "extract", "scrape", "embed", "calculate"}

\* updateStep, applied to the stage list prev
updateStep(prev, stepId, status) == [prev EXCEPT ![stepId] = status]

\* mutant of FailRunning: every stage that is not completed becomes error
FailUnfinished(prev) ==
    [id \in StepIds |-> IF prev[id] \in {"running", "pending"} THEN "error" ELSE prev[id]]

\* the catch block: every running stage becomes error
FailRunning(prev) ==
    [id \in StepIds |-> IF prev[id] = "running" THEN "error" ELSE prev[id]]

\* a number num/den; whole numbers are kept with den = 1
Frac(num, den) ==
    IF num % den = 0 THEN [num |-> num \div den, den |-> 1]
    ELSE [num |-> num, den |-> den]

\* 40 + ((i + 1) / urls.length) * 50, for the 1-based position k of n
ItemProgress(k, n) == Frac(40 * n + k * 50, n)

NoFileCsv == [readable |-> FALSE, lines |-> <<>>]
NoFileJson == [kind |-> "invalid", items |-> <<>>]
NoItem ==
    /\ pageContent' = <<>>
    /\ routePrompt' = <<>>
    /\ gptResponse' = <<>>
    /\ embPage' = NoEmbedding
    /\ embGpt' = NoEmbedding
    /\ scrapeWarned' = FALSE

HookInit ==
    /\ isAnalyzing = FALSE
    /\ progress = Frac(0, 1)
    /\ results = <<>>
    /\ steps = [id \in StepIds |-> "pending"]
    /\ csvFile = NoFileCsv
    /\ jsonFile = NoFileJson
    /\ pc = "idle"
    /\ urls = <<>>
    /\ jsonData = NoFileJson
    /\ i = 0
    /\ analysisResults = <<>>
    /\ pageContent = <<>>
    /\ routePrompt = <<>>
    /\ gptResponse = <<>>
    /\ embPage = NoEmbedding
    /\ embGpt = NoEmbedding
    /\ progressLog = <<>>
    /\ outcome = "none"
    /\ everyFallback = TRUE
    /\ scrapeWarned = FALSE
    /\ runs = 0
    /\ entered = {}
    /\ exportLog = <<>>
    /\ pc2 = "none"

Init ==
    /\ HookInit
    /\ args = <<>>
    /\ ret = <<>>

(***************************************************************************)
(* startAnalysis, one action per stretch of code between two awaits.       *)
(***************************************************************************)
\* lines 130-139: the button of Index.tsx is shown only while there are no
\* results and no analysis is running
StartAnalysis(csv, json) ==
    /\ pc = "idle"
    /\ ~isAnalyzing
    /\ results = <<>>
    /\ isAnalyzing' = TRUE
    /\ progress' = Frac(10, 1)
    /\ progressLog' = <<Frac(0, 1), Frac(10, 1)>>
    /\ results' = <<>>
    /\ steps' = updateStep(steps, "parse", "running")
    /\ csvFile' = csv
    /\ jsonFile' = json
    /\ pc' = "parseCSV"
    /\ outcome' = "none"
    /\ everyFallback' = TRUE
    /\ runs' = runs + 1
    /\ entered' = {"parse"}
    /\ UNCHANGED <<localVars, scrapeWarned, callVars>>

\* line 139: parseCSV returns
ParseCSVReturn ==
    /\ pc = "parseCSV"
    /\ csvFile.readable
    /\ urls' = parseCSV(csvFile.lines)
    /\ pc' = "parseJSON"
    /\ UNCHANGED <<hookVars, fileVars, jsonData, i, analysisResults, itemVars,
                   historyVars, callVars>>

\* line 139: file.text() rejects
ParseCSVThrow ==
    /\ pc = "parseCSV"
    /\ ~csvFile.readable
    /\ pc' = "thrown"
    /\ UNCHANGED <<hookVars, fileVars, localVars, historyVars, callVars>>

\* line 140: JSON.parse throws
ParseJSONThrow ==
    /\ pc = "parseJSON"
    /\ jsonFile.kind = "invalid"
    /\ pc' = "thrown"
    /\ UNCHANGED <<hookVars, fileVars, localVars, historyVars, callVars>>

\* The head of the loop (line 157) reached with position k, stage list st,
\* accumulated results ar, progress history log and entered stages en: either
\* the next URL is scraped (lines 158-161), or the loop is over and the run
\* completes (lines 193-198, 206).
LoopHead(k, st, ar, log, jd, en) ==
    /\ entered' = en \cup {"scrape"}
    /\ progressLog' = (IF k <= Len(urls) THEN log ELSE Append(log, Frac(100, 1)))
    /\ progress' = progressLog'[Len(progressLog')]
    /\ NoItem
    /\ UNCHANGED <<fileVars, everyFallback, runs, callVars>>
    /\ IF k <= Len(urls)
       THEN /\ i' = k
            /\ steps' = updateStep(st, "scrape", "running")
            /\ analysisResults' = ar
            /\ jsonData' = jd
            /\ pc' = "scrape"
            /\ UNCHANGED <<isAnalyzing, results, urls, outcome>>
       ELSE /\ steps' = updateStep(updateStep(updateStep(st,
                            "scrape", "completed"), "embed", "completed"),
                            "calculate", "completed")
            /\ results' = ar
            /\ isAnalyzing' = FALSE
            /\ outcome' = "completed"
            /\ pc' = "idle"
            /\ i' = 0
            /\ urls' = <<>>
            /\ jsonData' = NoFileJson
            /\ analysisResults' = <<>>

\* lines 140-161: parseJSON returns
ParseJSONReturn ==
    /\ pc = "parseJSON"
    /\ jsonFile.kind # "invalid"
    /\ LoopHead(1,
                updateStep(updateStep(updateStep(steps,
                    "parse", "completed"), "extract", "completed"),
                    "scrape", "running"),
                <<>>,
                progressLog \o <<Frac(20, 1), Frac(30, 1), Frac(40, 1)>>,
                jsonFile,
                entered \cup {"extract", "scrape"})

\* mutant of ScrapeReturn: scrapePageContent has no catch block
ScrapeReturnNoCatch(resp) ==
    /\ pc = "scrape"
    /\ pageContent' = (IF ScrapeFails(resp) THEN <<>> ELSE scrapePageContent(urls[i], resp))
    /\ scrapeWarned' = FALSE
    /\ pc' = (IF ScrapeFails(resp) THEN "thrown" ELSE "scraped")
    /\ UNCHANGED <<hookVars, fileVars, urls, jsonData, i, analysisResults,
                   routePrompt, gptResponse, embPage, embGpt,
                   progressLog, outcome, everyFallback, runs, entered, callVars>>

\* line 161: scrapePageContent settles, with the page text or, from its
\* catch block, with the placeholder
ScrapeReturn(resp) ==
    /\ pc = "scrape"
    /\ pageContent' = scrapePageContent(urls[i], resp)
    /\ scrapeWarned' = ScrapeFails(resp)
    /\ pc' = "scraped"
    /\ UNCHANGED <<hookVars, fileVars, urls, jsonData, i, analysisResults,
                   routePrompt, gptResponse, embPage, embGpt,
                   progressLog, outcome, everyFallback, runs, entered, callVars>>

\* lines 162-163: for...of throws on a corpus that is not iterable
MatchThrow ==
    /\ pc = "scraped"
    /\ jsonData.kind = "object"
    /\ pc' = "thrown"
    /\ UNCHANGED <<hookVars, fileVars, localVars, historyVars, callVars>>

\* lines 162-168 and on to the next URL: no answer for this URL
MatchSkip ==
    /\ pc = "scraped"
    /\ jsonData.kind = "array"
    /\ findMatchingGPTResponse(extractRoutePrompt(urls[i]), jsonData.items) = <<>>
    /\ LoopHead(i + 1, steps, analysisResults, progressLog, jsonData, entered)

\* lines 162-175: an answer is found and the two embeddings are requested
MatchEmbed ==
    /\ pc = "scraped"
    /\ jsonData.kind = "array"
    /\ routePrompt' = extractRoutePrompt(urls[i])
    /\ gptResponse' = findMatchingGPTResponse(routePrompt', jsonData.items)
    /\ gptResponse' # <<>>
    /\ steps' = updateStep(steps, "embed", "running")
    /\ embPage' = PendingEmbedding(pageContent)
    /\ embGpt' = PendingEmbedding(gptResponse')
    /\ pc' = "embed"
    /\ entered' = entered \cup {"embed"}
    /\ UNCHANGED <<isAnalyzing, progress, results, fileVars, urls, jsonData, i,
                   analysisResults, pageContent, progressLog, outcome,
                   everyFallback, scrapeWarned, runs, callVars>>

\* line 173: generateEmbedding(pageContent, apiKey) settles
PageEmbeddingReturn(resp, rnd) ==
    /\ pc = "embed"
    /\ embPage.st = "pending"
    /\ embPage' = Settled(embPage, generateEmbedding(resp, rnd))
    /\ everyFallback' = (everyFallback /\ EmbeddingFails(resp))
    /\ UNCHANGED <<hookVars, fileVars, pc, urls, jsonData, i, analysisResults,
                   pageContent, routePrompt, gptResponse, embGpt,
                   progressLog, outcome, scrapeWarned, runs, entered, callVars>>

\* line 174: generateEmbedding(gptResponse, apiKey) settles
GptEmbeddingReturn(resp, rnd) ==
    /\ pc = "embed"
    /\ embGpt.st = "pending"
    /\ embGpt' = Settled(embGpt, generateEmbedding(resp, rnd))
    /\ everyFallback' = (everyFallback /\ EmbeddingFails(resp))
    /\ UNCHANGED <<hookVars, fileVars, pc, urls, jsonData, i, analysisResults,
                   pageContent, routePrompt, gptResponse, embPage,
                   progressLog, outcome, scrapeWarned, runs, entered, callVars>>

\* mutant of BothSettled: one settled request is enough (Promise.race)
AnySettled == embPage.st \notin {"none", "pending"} \/ embGpt.st \notin {"none", "pending"}

\* Promise.all: both requests have settled
BothSettled == embPage.st \notin {"none", "pending"} /\ embGpt.st \notin {"none", "pending"}

\* lines 177-179: cosineSimilarity throws a TypeError on undefined
CalculateThrow ==
    /\ pc = "embed"
    /\ BothSettled
    /\ embPage.st = "undefined" \/ embGpt.st = "undefined"
    /\ steps' = updateStep(steps, "calculate", "running")
    /\ pc' = "thrown"
    /\ entered' = entered \cup {"calculate"}
    /\ UNCHANGED <<isAnalyzing, progress, results, fileVars, localVars,
                   progressLog, outcome, everyFallback, scrapeWarned, runs,
                   callVars>>

\* lines 177-190 and on to the next URL
CalculatePush ==
    /\ pc = "embed"
    /\ BothSettled
    /\ embPage.st = "vector" /\ embGpt.st = "vector"
    /\ LoopHead(i + 1,
                updateStep(steps, "calculate", "running"),
                Append(analysisResults,
                       [url |-> urls[i],
                        prompt |-> routePrompt,
                        pageText |-> SubstringTo(pageContent, ResultTextLimit),
                        gptAnswer |-> SubstringTo(gptResponse, ResultTextLimit),
                        similarity |-> cosineSimilarity(embPage.vec, embGpt.vec),
                        urlPattern |-> routePrompt]),
                Append(progressLog, ItemProgress(i, Len(urls))),
                jsonData,
                entered \cup {"calculate"})

\* mutant of Catch: there is no finally block, isAnalyzing stays true
CatchNoFinally ==
    /\ pc = "thrown"
    /\ steps' = FailRunning(steps)
    /\ outcome' = "failed"
    /\ pc' = "idle"
    /\ i' = 0
    /\ urls' = <<>>
    /\ jsonData' = NoFileJson
    /\ analysisResults' = <<>>
    /\ NoItem
    /\ UNCHANGED <<isAnalyzing, progress, results, fileVars, progressLog,
                   everyFallback, runs, entered, callVars>>

\* lines 200-207: the catch block, then finally
Catch ==
    /\ pc = "thrown"
    /\ steps' = FailRunning(steps)
    /\ isAnalyzing' = FALSE
    /\ outcome' = "failed"
    /\ pc' = "idle"
    /\ i' = 0
    /\ urls' = <<>>
    /\ jsonData' = NoFileJson
    /\ analysisResults' = <<>>
    /\ NoItem
    /\ UNCHANGED <<progress, results, fileVars, progressLog, everyFallback, runs,
                   entered, callVars>>

Next ==
    \/ \E csv \in CsvFiles, json \in JsonFiles :
          runs < MaxRuns /\ StartAnalysis(csv, json)
    \/ ParseCSVReturn
    \/ ParseCSVThrow
    \/ ParseJSONThrow
    \/ ParseJSONReturn
    \/ \E resp \in ProxyResponses : ScrapeReturn(resp)
    \/ MatchThrow
    \/ MatchSkip
    \/ MatchEmbed
    \/ \E resp \in EmbeddingResponses, rnd \in RandomVectors : PageEmbeddingReturn(resp, rnd)
    \/ \E resp \in EmbeddingResponses, rnd \in RandomVectors : GptEmbeddingReturn(resp, rnd)
    \/ CalculateThrow
    \/ CalculatePush
    \/ Catch

Spec == Init /\ [][Next]_vars

(***************************************************************************)
(* The same run over longer URL lists, with one answer per service call    *)
(* kind: every scrape fails, every embedding request either falls back or  *)
(* comes back without the embedding field.                                 *)
(***************************************************************************)
\* lines of the URL list in the batch specification (header line included)
MaxBatchLines == 5
\* invocations of startAnalysis on one analyzer in the batch specification
MaxBatchRuns == 2

BatchCsvFiles ==
    {[readable |-> FALSE, lines |-> <<>>]}
        \cup {[readable |-> TRUE, lines |-> l] :
                l \in SeqsUpTo({LineMatched, LineOtherRoute}, MaxBatchLines)}

BatchJsonFiles ==
    { [kind |-> "invalid", items |-> <<>>],
      [kind |-> "object", items |-> <<>>],
      [kind |-> "array", items |-> <<ItemUnrelated, ItemRelated>>] }

BatchProxyResponses == {[kind |-> "networkError", contents |-> <<>>]}

BatchEmbeddingResponses ==
    { [kind |-> "httpError", hasData |-> FALSE, data |-> <<>>],
      [kind |-> "json", hasData |-> TRUE,
       data |-> <<[hasEmbedding |-> FALSE, embedding |-> <<>>]>>] }

BatchRandomVectors == {[k \in 1..FallbackDim |-> 1]}

NextBatch ==
    \/ \E csv \in BatchCsvFiles, json \in BatchJsonFiles :
          runs < MaxBatchRuns /\ StartAnalysis(csv, json)
    \/ ParseCSVReturn
    \/ ParseCSVThrow
    \/ ParseJSONThrow
    \/ ParseJSONReturn
    \/ \E resp \in BatchProxyResponses : ScrapeReturn(resp)
    \/ MatchThrow
    \/ MatchSkip
    \/ MatchEmbed
    \/ \E resp \in BatchEmbeddingResponses, rnd \in BatchRandomVectors :
          PageEmbeddingReturn(resp, rnd)
    \/ \E resp \in BatchEmbeddingResponses, rnd \in BatchRandomVectors :
          GptEmbeddingReturn(resp, rnd)
    \/ CalculateThrow
    \/ CalculatePush
    \/ Catch

SpecBatch == Init /\ [][NextBatch]_vars

(***************************************************************************)
(* exportResults                                                           *)
(***************************************************************************)
ExportHeader ==
    << <<"U","R","L">>, <<"P","r","o","m","p","t">>,
       <<"P","a","g","e"," ","T","e","x","t"," ","(","t","r","u","n","c","a","t","e","d",")">>,
       <<"G","P","T"," ","A","n","s","w","e","r"," ","(","t","r","u","n","c","a","t","e","d",")">>,
       <<"C","o","s","i","n","e"," ","S","i","m","i","l","a","r","i","t","y">> >>

\* mutant of DoubleQuotes: the quotes of a field are left as they are
KeepQuotes(s) == s

\* s.replace(/"/g, '""'), computed by halves
RECURSIVE DoubleQuotes(_)
DoubleQuotes(s) ==
    IF s = <<>> THEN s
    ELSE IF Len(s) = 1 THEN (IF s[1] = "\"" THEN <<"\"", "\"">> ELSE s)
    ELSE LET half == Len(s) \div 2
         IN DoubleQuotes(SubSeq(s, 1, half)) \o DoubleQuotes(SubSeq(s, half + 1, Len(s)))

Digits == <<"0","1","2","3","4","5","6","7","8","9">>

\* the decimal digits of a natural number
RECURSIVE Decimal(_)
Decimal(n) ==
    IF n < 10 THEN <<Digits[n + 1]>>
    ELSE Decimal(n \div 10) \o <<Digits[(n % 10) + 1]>>

\* toFixed(4): 10 to the power of the digits after the point
FixedScale == 10000

\* the integer square root
ISqrt(n) == CHOOSE r \in 0..n : r * r <= n /\ (r + 1) * (r + 1) > n

\* similarity.toFixed(4) for a similarity dot / sqrt(na * nb) whose
\* denominator is a whole number: rounded to the nearest multiple of 1/10000
ToFixed(sim) ==
    IF sim.nan THEN <<"N","a","N">>
    ELSE LET root == ISqrt(sim.na * sim.nb)
             mag == IF sim.dot < 0 THEN 0 - sim.dot ELSE sim.dot
             scaled == (2 * mag * FixedScale + root) \div (2 * root)
             frac == Decimal(FixedScale + (scaled % FixedScale))
         IN (IF sim.dot < 0 THEN <<"-">> ELSE <<>>)
            \o Decimal(scaled \div FixedScale) \o <<".">> \o Tail(frac)

\* the cells of the row of one result (lines 215-221)
ExportRow(r) ==
    <<r.url, r.prompt, DoubleQuotes(r.pageText), DoubleQuotes(r.gptAnswer),
      ToFixed(r.similarity)>>

\* array.join(sep)
RECURSIVE Join(_, _)
Join(ss, sep) ==
    IF ss = <<>> THEN <<>>
    ELSE IF Len(ss) = 1 THEN ss[1]
    ELSE ss[1] \o sep \o Join(Tail(ss), sep)

\* lines 213-222: the text of the file
csvContent(rs) ==
    LET rows == <<ExportHeader>> \o [k \in 1..Len(rs) |-> ExportRow(rs[k])]
        quoted(row) == [c \in 1..Len(row) |-> <<"\"">> \o row[c] \o <<"\"">>]
    IN Join([k \in 1..Len(rows) |-> Join(quoted(rows[k]), <<",">>)], <<"\n">>)

NoDownload == [produced |-> FALSE, text |-> <<>>]
Download(text) == [produced |-> TRUE, text |-> text]

\* mutant of exportResults: the test of line 211 is missing
exportResultsNoGuard(rs) == Download(csvContent(rs))

\* what exportResults hands to the browser as a download
exportResults(rs) ==
    IF Len(rs) = 0 THEN NoDownload ELSE Download(csvContent(rs))

\* calls of exportResults
MaxExports == 2
\* lines of the URL list (header line included) and invocations of
\* startAnalysis in the export specification
MaxExportLines == 3
MaxExportRuns == 1

ExportResults ==
    /\ Len(exportLog) < MaxExports
    /\ exportLog' = Append(exportLog, exportResults(results))
    /\ UNCHANGED <<hookVars, fileVars, pc, localVars, historyVars, args, ret, pc2>>

\* a corpus whose answer, and a page whose text, hold quotes, a comma and a
\* line break
ItemQuoted ==
    [prompt |-> <<"a"," ","t","o"," ","b">>,
     response |-> <<"\"","X","\"",",","\n","y">>]

ExportCsvFiles ==
    {[readable |-> FALSE, lines |-> <<>>]}
        \cup {[readable |-> TRUE, lines |-> l] :
                l \in SeqsUpTo({LineMatched, LineOtherRoute}, MaxExportLines)}

ExportJsonFiles ==
    { [kind |-> "invalid", items |-> <<>>],
      [kind |-> "object", items |-> <<>>],
      [kind |-> "array", items |-> <<ItemQuoted>>] }

ExportProxyResponses ==
    { [kind |-> "networkError", contents |-> <<>>],
      [kind |-> "json",
       contents |-> <<[tag |-> "p", text |-> <<"a"," ","\"","b","\"",",","\n","c">>]>>] }

\* vectors whose components are all equal: the similarity of two of them is
\* 1, -1 or NaN
ExportRandomVectors == {[k \in 1..FallbackDim |-> c] : c \in RandomComponents}

NextExport ==
    \/ \E csv \in ExportCsvFiles, json \in ExportJsonFiles :
          runs < MaxExportRuns /\ StartAnalysis(csv, json)
    \/ ParseCSVReturn
    \/ ParseCSVThrow
    \/ ParseJSONThrow
    \/ ParseJSONReturn
    \/ \E resp \in ExportProxyResponses : ScrapeReturn(resp)
    \/ MatchThrow
    \/ MatchSkip
    \/ MatchEmbed
    \/ \E resp \in BatchEmbeddingResponses, rnd \in ExportRandomVectors :
          PageEmbeddingReturn(resp, rnd)
    \/ \E resp \in BatchEmbeddingResponses, rnd \in ExportRandomVectors :
          GptEmbeddingReturn(resp, rnd)
    \/ CalculateThrow
    \/ CalculatePush
    \/ Catch
    \/ ExportResults

SpecExport == Init /\ [][NextExport]_vars

(***************************************************************************)
(* calculatePriorityScore (AnalysisResults.tsx).  A number is a fraction   *)
(* num/den or NaN.                                                         *)
(***************************************************************************)
NumNaN == [nan |-> TRUE, num |-> 0, den |-> 1]
Num(n, d) == [nan |-> FALSE, num |-> n, den |-> d]

\* Math.min(x, n) for a whole number n: NaN when x is NaN
MathMin(x, n) ==
    IF x.nan THEN NumNaN
    ELSE IF x.num <= n * x.den THEN x
    ELSE Num(n * x.den, x.den)

\* mutant of PriorityRaw: the similarity is added instead of its complement
PriorityRawSimilarityAdded(result) ==
    LET sim == result.similarity
        den == sim.den
        terms == 50 * den
                 + (den + sim.num) * 40
                 + (IF result.intentType = "Transactional" THEN 20 * den ELSE 0)
                 + (IF result.intentType = "Mixed" THEN 15 * den ELSE 0)
                 + (IF Len(result.keywordGaps) > 0
                    THEN Len(result.keywordGaps) * 5 * den ELSE 0)
                 + (IF result.entityMismatch THEN 15 * den ELSE 0)
                 + (IF result.sentenceStructureIssue THEN 10 * den ELSE 0)
    IN IF sim.nan THEN NumNaN ELSE Num(terms, den)

\* the sum of lines 132-148, without the clamp of line 150
PriorityRaw(result) ==
    LET sim == result.similarity
        den == sim.den
        terms == 50 * den
                 + (den - sim.num) * 40
                 + (IF result.intentType = "Transactional" THEN 20 * den ELSE 0)
                 + (IF result.intentType = "Mixed" THEN 15 * den ELSE 0)
                 + (IF Len(result.keywordGaps) > 0
                    THEN Len(result.keywordGaps) * 5 * den ELSE 0)
                 + (IF result.entityMismatch THEN 15 * den ELSE 0)
                 + (IF result.sentenceStructureIssue THEN 10 * den ELSE 0)
    IN IF sim.nan THEN NumNaN ELSE Num(terms, den)

\* mutant of calculatePriorityScore: Math.min is missing
calculatePriorityScoreNoClamp(result) == PriorityRaw(result)

calculatePriorityScore(result) == MathMin(PriorityRaw(result), 100)

(***************************************************************************)
(* The functions called on their own: the arguments are drawn in the       *)
(* initial state and one action applies the function.                      *)
(***************************************************************************)
NotCalled == [called |-> FALSE, value |-> <<>>]
Returned(v) == [called |-> TRUE, value |-> v]

\* findMatchingGPTResponse
MatcherAlphabet == {"a", "B"}
MatcherStrings == SeqsUpTo(MatcherAlphabet, MaxStrLen)
MatcherItems ==
    [prompt : MatcherStrings \cup {UndefinedStr},
     response : {<<"X">>, <<"Y">>, UndefinedStr}]

InitMatcher ==
    /\ HookInit
    /\ args \in [prompt : MatcherStrings, jsonData : SeqsUpTo(MatcherItems, MaxItems)]
    /\ ret = NotCalled

CallMatcher ==
    /\ ~ret.called
    /\ ret' = Returned(findMatchingGPTResponse(args.prompt, args.jsonData))
    /\ UNCHANGED <<hookVars, fileVars, pc, localVars, historyVars, args, exportLog, pc2>>

SpecMatcher == InitMatcher /\ [][CallMatcher]_vars

\* calculatePriorityScore
\* similarities are the multiples of 1/SimDen in [-1, 1], and NaN
SimDen == 4
\* keyword gaps of a result
MaxGaps == 3

CriticalKeywords ==
    << <<"b","o","o","k">>, <<"c","h","e","a","p">>, <<"p","r","i","c","e">>,
       <<"t","i","c","k","e","t">>, <<"e","u","r","o","s","t","a","r">>,
       <<"o","m","i","o">>, <<"t","r","a","i","n","l","i","n","e">>,
       <<"s","c","h","e","d","u","l","e">>, <<"j","o","u","r","n","e","y">> >>

IntentTypes == {"Informational", "Transactional", "Navigational", "Mixed"}

PrioritySimilarities == {NumNaN} \cup {Num(k, SimDen) : k \in (0 - SimDen)..SimDen}

PriorityGaps ==
    {SubSeq(CriticalKeywords, 1, n) :
        n \in 0..(IF MaxGaps < Len(CriticalKeywords) THEN MaxGaps ELSE Len(CriticalKeywords))}

InitPriority ==
    /\ HookInit
    /\ args \in [similarity : PrioritySimilarities,
                 intentType : IntentTypes,
                 keywordGaps : PriorityGaps,
                 entityMismatch : BOOLEAN,
                 sentenceStructureIssue : BOOLEAN]
    /\ ret = NotCalled

CallPriority ==
    /\ ~ret.called
    /\ ret' = Returned(calculatePriorityScore(args))
    /\ UNCHANGED <<hookVars, fileVars, pc, localVars, historyVars, args, exportLog, pc2>>

SpecPriority == InitPriority /\ [][CallPriority]_vars

\* calculatePriorityScore on a whole enhanced result (lines 166-175): the
\* five fields it reads and two that it does not
InitPriorityResult ==
    /\ HookInit
    /\ args \in [url : {UrlMatched, UrlOtherRoute},
                 matchFound : BOOLEAN,
                 similarity : PrioritySimilarities,
                 intentType : IntentTypes,
                 keywordGaps : PriorityGaps,
                 entityMismatch : BOOLEAN,
                 sentenceStructureIssue : BOOLEAN]
    /\ ret = NotCalled

CallPriorityResult ==
    /\ ~ret.called
    /\ ret' = Returned(calculatePriorityScore(args))
    /\ UNCHANGED <<hookVars, fileVars, pc, localVars, historyVars, args, exportLog, pc2>>

SpecPriorityResult == InitPriorityResult /\ [][CallPriorityResult]_vars

\* calculatePriorityScore on two results that differ in the similarity only
InitPriorityPair ==
    /\ HookInit
    /\ args \in [result : [similarity : PrioritySimilarities \ {NumNaN},
                           intentType : IntentTypes,
                           keywordGaps : PriorityGaps,
                           entityMismatch : BOOLEAN,
                           sentenceStructureIssue : BOOLEAN],
                 other : PrioritySimilarities \ {NumNaN}]
    /\ ret = NotCalled

CallPriorityPair ==
    /\ ~ret.called
    /\ ret' = Returned(<<calculatePriorityScore(args.result),
                         calculatePriorityScore([args.result EXCEPT !.similarity = args.other])>>)
    /\ UNCHANGED <<hookVars, fileVars, pc, localVars, historyVars, args, exportLog, pc2>>

SpecPriorityPair == InitPriorityPair /\ [][CallPriorityPair]_vars

(***************************************************************************)
(* classifyIntent (AnalysisResults.tsx)                                    *)
(***************************************************************************)
TransactionalKeywords ==
    << <<"b","u","y">>, <<"b","o","o","k">>, <<"c","h","e","a","p">>,
       <<"p","r","i","c","e">>, <<"t","i","c","k","e","t">>,
       <<"o","n","l","i","n","e">>, <<"p","u","r","c","h","a","s","e">> >>
InformationalKeywords ==
    << <<"h","o","w">>, <<"w","h","a","t">>, <<"w","h","e","n">>,
       <<"s","c","h","e","d","u","l","e">>,
       <<"d","u","r","a","t","i","o","n">>, <<"r","o","u","t","e">>,
       <<"i","n","f","o">> >>
NavigationalKeywords ==
    << <<"t","r","a","i","n","l","i","n","e">>,
       <<"w","e","b","s","i","t","e">>, <<"o","f","f","i","c","i","a","l">>,
       <<"l","o","g","i","n">>, <<"a","c","c","o","u","n","t">> >>

\* keywords.filter(kw => text.includes(kw)).length
RECURSIVE KeywordCount(_, _)
KeywordCount(keywords, text) ==
    IF keywords = <<>> THEN 0
    ELSE (IF Includes(text, keywords[1]) THEN 1 ELSE 0)
         + KeywordCount(Tail(keywords), text)

\* mutant of classifyIntent: the test for Mixed is missing
classifyIntentNoMixed(prompt, pageText) ==
    LET text == ToLowerCase(prompt \o <<" ">> \o pageText)
        transactionalCount == KeywordCount(TransactionalKeywords, text)
        informationalCount == KeywordCount(InformationalKeywords, text)
        navigationalCount == KeywordCount(NavigationalKeywords, text)
    IN IF transactionalCount > informationalCount /\ transactionalCount > navigationalCount
       THEN "Transactional"
       ELSE IF informationalCount > navigationalCount THEN "Informational"
       ELSE "Navigational"

classifyIntent(prompt, pageText) ==
    LET text == ToLowerCase(prompt \o <<" ">> \o pageText)
        transactionalCount == KeywordCount(TransactionalKeywords, text)
        informationalCount == KeywordCount(InformationalKeywords, text)
        navigationalCount == KeywordCount(NavigationalKeywords, text)
    IN IF transactionalCount > 0 /\ informationalCount > 0 THEN "Mixed"
       ELSE IF transactionalCount > informationalCount /\ transactionalCount > navigationalCount
       THEN "Transactional"
       ELSE IF informationalCount > navigationalCount THEN "Informational"
       ELSE "Navigational"

\* words of a page text in the intent specification
MaxWords == 3

\* a transactional, an informational and a navigational keyword twice each
\* (one of them in upper case), and a word that is no keyword
IntentWords ==
    { <<"b","u","y">>, <<"B","O","O","k">>, <<"h","o","w">>, <<"w","h","A","T">>,
      <<"l","o","g","i","n">>, <<"a","c","c","o","u","n","t">>, <<"z","z">> }

\* the words joined by single spaces
RECURSIVE JoinWords(_)
JoinWords(ws) ==
    IF ws = <<>> THEN <<>>
    ELSE IF Len(ws) = 1 THEN ws[1]
    ELSE ws[1] \o <<" ">> \o JoinWords(Tail(ws))

IntentPrompts == {<<>>, <<"w","h","e","n">>}
IntentPageTexts == {JoinWords(ws) : ws \in SeqsUpTo(IntentWords, MaxWords)}

InitIntent ==
    /\ HookInit
    /\ args \in [prompt : IntentPrompts, pageText : IntentPageTexts]
    /\ ret = NotCalled

CallIntent ==
    /\ ~ret.called
    /\ ret' = Returned(classifyIntent(args.prompt, args.pageText))
    /\ UNCHANGED <<hookVars, fileVars, pc, localVars, historyVars, args, exportLog, pc2>>

SpecIntent == InitIntent /\ [][CallIntent]_vars

\* extractRoutePrompt
\* pieces of a slug in the route specification
MaxSlugTokens == 5

SlugTokens == {<<"A">>, <<"b">>, ToSep}

RECURSIVE Flatten(_)
Flatten(ss) == IF ss = <<>> THEN <<>> ELSE ss[1] \o Flatten(Tail(ss))

\* a URL: what precedes the segment, the literal or a near miss of it or
\* nothing, the slug, and what follows
RouteUrls ==
    {pre \o mid \o Flatten(slug) \o post :
        pre \in {<<>>, <<"h","/">>},
        mid \in {<<>>, TrainTimes, TrainTimes \o <<"/">> \o TrainTimes},
        slug \in SeqsUpTo(SlugTokens, MaxSlugTokens),
        post \in {<<>>, <<"/">>, <<"/","b">> \o ToSep \o <<"b">>}}

InitRoute ==
    /\ HookInit
    /\ args \in [url : RouteUrls]
    /\ ret = NotCalled

CallRoute ==
    /\ ~ret.called
    /\ ret' = Returned(extractRoutePrompt(args.url))
    /\ UNCHANGED <<hookVars, fileVars, pc, localVars, historyVars, args, exportLog, pc2>>

SpecRoute == InitRoute /\ [][CallRoute]_vars

\* cosineSimilarity, called on a pair of vectors in both orders
\* components of a vector in the cosine specification
MaxDim == 2

CosineComponents == {-1, 0, 1, 2}
CosineVectors == SeqsUpTo(CosineComponents, MaxDim)

InitCosine ==
    /\ HookInit
    /\ args \in [a : CosineVectors, b : CosineVectors]
    /\ ret = NotCalled

CallCosine ==
    /\ ~ret.called
    /\ ret' = Returned(<<cosineSimilarity(args.a, args.b),
                         cosineSimilarity(args.b, args.a)>>)
    /\ UNCHANGED <<hookVars, fileVars, pc, localVars, historyVars, args, exportLog, pc2>>

SpecCosine == InitCosine /\ [][CallCosine]_vars

(***************************************************************************)
(* The run over URL lists that are longer than the five rows parseCSV      *)
(* keeps, with the answers of the services of the batch specification.     *)
(***************************************************************************)
\* lines of the URL list in the rows specification (header line included)
MaxRowLines == 7
\* invocations of startAnalysis in the rows specification
MaxRowRuns == 1

\* lists of matched and unmatched lines, and two lists with blank lines
\* before the header and between the rows
RowsCsvFiles ==
    {[readable |-> FALSE, lines |-> <<>>]}
        \cup {[readable |-> TRUE, lines |-> l] :
                l \in SeqsUpTo({LineMatched, LineOtherRoute}, MaxRowLines)}
        \cup {[readable |-> TRUE, lines |-> l] :
                l \in { <<LineBlank, LineOtherRoute, LineBlank, LineMatched>>,
                        <<LineMatched, LineBlank, LineMatched, LineBlank, LineOtherRoute>> }}

NextRows ==
    \/ \E csv \in RowsCsvFiles, json \in BatchJsonFiles :
          runs < MaxRowRuns /\ StartAnalysis(csv, json)
    \/ ParseCSVReturn
    \/ ParseCSVThrow
    \/ ParseJSONThrow
    \/ ParseJSONReturn
    \/ \E resp \in BatchProxyResponses : ScrapeReturn(resp)
    \/ MatchThrow
    \/ MatchSkip
    \/ MatchEmbed
    \/ \E resp \in BatchEmbeddingResponses, rnd \in BatchRandomVectors :
          PageEmbeddingReturn(resp, rnd)
    \/ \E resp \in BatchEmbeddingResponses, rnd \in BatchRandomVectors :
          GptEmbeddingReturn(resp, rnd)
    \/ CalculateThrow
    \/ CalculatePush
    \/ Catch

SpecRows == Init /\ [][NextRows]_vars

(***************************************************************************)
(* analyzeSemanticGaps (AnalysisResults.tsx).                              *)
(***************************************************************************)
\* the characters matched by \s
RegexSpace == Whitespace \cup {"\n"}

RECURSIVE DropSpace(_)
DropSpace(s) ==
    IF s # <<>> /\ s[1] \in RegexSpace THEN DropSpace(Tail(s)) ELSE s

\* String.prototype.split(/\s+/)
RECURSIVE SplitSpace(_)
SplitSpace(s) ==
    IF \A k \in 1..Len(s) : s[k] \notin RegexSpace
    THEN <<s>>
    ELSE LET k == CHOOSE j \in 1..Len(s) :
                      /\ s[j] \in RegexSpace
                      /\ \A h \in 1..(j - 1) : s[h] \notin RegexSpace
         IN <<SubSeq(s, 1, k - 1)>> \o SplitSpace(DropSpace(SubSeq(s, k, Len(s))))

\* Array.prototype.includes
ArrayIncludes(arr, x) == \E k \in 1..Len(arr) : arr[k] = x

\* RegExp.prototype.test for a pattern that is an alternation of literals
TestAny(literals, s) == \E t \in literals : Includes(s, t)

PricingPattern ==
    { <<"p","r","i","c","e">>, <<"c","o","s","t">>, <<"£">>, <<"$">>,
      <<"f","a","r","e">>, <<"c","h","e","a","p">>,
      <<"e","x","p","e","n","s","i","v","e">> }

VaguePattern ==
    { <<"y","o","u"," ","c","a","n"," ","t","r","a","v","e","l">>,
      <<"j","o","u","r","n","e","y"," ","f","r","o","m">>,
      <<"r","o","u","t","e"," ","b","e","t","w","e","e","n">> }

Trainline == <<"t","r","a","i","n","l","i","n","e">>
Eurostar == <<"e","u","r","o","s","t","a","r">>
Omio == <<"o","m","i","o">>

analyzeSemanticGaps(pageText, gptAnswer) ==
    LET pageWords == SplitSpace(ToLowerCase(pageText))
        gptWords == SplitSpace(ToLowerCase(gptAnswer))
        IsGap(keyword) ==
            ArrayIncludes(gptWords, keyword) /\ ~ArrayIncludes(pageWords, keyword)
        page == [hasTrainline |-> Includes(ToLowerCase(pageText), Trainline),
                 hasEurostar |-> Includes(ToLowerCase(pageText), Eurostar),
                 hasOmio |-> Includes(ToLowerCase(pageText), Omio)]
        gpt == [hasTrainline |-> Includes(ToLowerCase(gptAnswer), Trainline),
                hasEurostar |-> Includes(ToLowerCase(gptAnswer), Eurostar),
                hasOmio |-> Includes(ToLowerCase(gptAnswer), Omio)]
        pageHasPricing == TestAny(PricingPattern, ToLowerCase(pageText))
        gptHasPricing == TestAny(PricingPattern, ToLowerCase(gptAnswer))
        pageHasVague == TestAny(VaguePattern, ToLowerCase(pageText))
    IN [keywordGaps |-> SelectSeq(CriticalKeywords, IsGap),
        entityMismatch |->
            \/ gpt.hasEurostar /\ page.hasTrainline
            \/ gpt.hasOmio /\ page.hasTrainline
            \/ gpt.hasTrainline /\ (page.hasEurostar \/ page.hasOmio),
        sentenceStructureIssue |-> ~pageHasPricing /\ gptHasPricing /\ pageHasVague]

\* words of a text in the gap specification
MaxGapWords == 2

\* the three brands (one with upper-case letters), a critical term in upper
\* case and followed by a comma, a pricing term, and the two words of a vague
\* phrase
GapWords ==
    { Trainline, <<"e","u","r","O","S","T","a","r">>, Omio,
      <<"B","O","O","k">>, <<"b","o","o","k",",">>, <<"c","h","e","a","p">>,
      <<"j","o","u","r","n","e","y">>, <<"f","r","o","m">> }

GapTexts == {JoinWords(ws) : ws \in SeqsUpTo(GapWords, MaxGapWords)}

InitGaps ==
    /\ HookInit
    /\ args \in [pageText : GapTexts, gptAnswer : GapTexts]
    /\ ret = NotCalled

CallGaps ==
    /\ ~ret.called
    /\ ret' = Returned(analyzeSemanticGaps(args.pageText, args.gptAnswer))
    /\ UNCHANGED <<hookVars, fileVars, pc, localVars, historyVars, args, exportLog, pc2>>

SpecGaps == InitGaps /\ [][CallGaps]_vars

(***************************************************************************)
(* The similarity labels and the four bucket counts (AnalysisResults.tsx). *)
(***************************************************************************)
\* score >= tenths / 10 and score < tenths / 10: false when score is NaN
AtLeast(score, tenths) == ~score.nan /\ score.num * 10 >= tenths * score.den
Below(score, tenths) == ~score.nan /\ score.num * 10 < tenths * score.den

getSimilarityLabel(score) ==
    IF AtLeast(score, 8) THEN "Excellent"
    ELSE IF AtLeast(score, 7) THEN "Good"
    ELSE IF AtLeast(score, 6) THEN "Fair"
    ELSE "Poor"

\* lines 211-214, for the similarities of enhancedResults
IsExcellent(s) == AtLeast(s, 8)
IsGood(s) == AtLeast(s, 7) /\ Below(s, 8)
IsFair(s) == AtLeast(s, 6) /\ Below(s, 7)
IsPoor(s) == Below(s, 6)
BucketCounts(sims) ==
    [excellent |-> Len(SelectSeq(sims, IsExcellent)),
     good |-> Len(SelectSeq(sims, IsGood)),
     fair |-> Len(SelectSeq(sims, IsFair)),
     poor |-> Len(SelectSeq(sims, IsPoor))]

\* results shown, and the similarities k / BucketDen they are drawn from
MaxBucketResults == 3
BucketDen == 20

\* -1, 1/2, the three thresholds, a value between two of them, 1, and NaN
BucketSimilarities ==
    {NumNaN} \cup
    {Num(k, BucketDen) : k \in {0 - BucketDen, BucketDen \div 2, (6 * BucketDen) \div 10,
                                (13 * BucketDen) \div 20, (7 * BucketDen) \div 10,
                                (8 * BucketDen) \div 10, BucketDen}}

InitBuckets ==
    /\ HookInit
    /\ args \in SeqsUpTo(BucketSimilarities, MaxBucketResults) \ {<<>>}
    /\ ret = NotCalled

\* the component renders: the counts, and the label shown for each result
CallBuckets ==
    /\ ~ret.called
    /\ ret' = Returned([counts |-> BucketCounts(args),
                        labels |-> [k \in 1..Len(args) |-> getSimilarityLabel(args[k])]])
    /\ UNCHANGED <<hookVars, fileVars, pc, localVars, historyVars, args, exportLog, pc2>>

SpecBuckets == InitBuckets /\ [][CallBuckets]_vars

(***************************************************************************)
(* The batch specification with scheduling.  Every external call settles   *)
(* (the file reads, the page fetch, the two embedding requests), the event *)
(* loop runs the continuation of a settled call, and the synchronous code  *)
(* that follows the scrape (lines 162-170) runs on to the next await or to *)
(* the end of the run: the invocation does not stay at that point.         *)
(* Starting a run is up to the user.                                       *)
(***************************************************************************)
ScrapeSettles == \E resp \in BatchProxyResponses : ScrapeReturn(resp)
PageEmbeddingSettles ==
    \E resp \in BatchEmbeddingResponses, rnd \in BatchRandomVectors :
        PageEmbeddingReturn(resp, rnd)
GptEmbeddingSettles ==
    \E resp \in BatchEmbeddingResponses, rnd \in BatchRandomVectors :
        GptEmbeddingReturn(resp, rnd)

SpecBatchFair ==
    /\ Init
    /\ [][NextBatch]_vars
    /\ WF_vars(ParseCSVReturn)
    /\ WF_vars(ParseCSVThrow)
    /\ WF_vars(ParseJSONReturn)
    /\ WF_vars(ParseJSONThrow)
    /\ WF_vars(ScrapeSettles)
    /\ []<>(pc # "scraped")
    /\ WF_vars(PageEmbeddingSettles)
    /\ WF_vars(GptEmbeddingSettles)
    /\ WF_vars(CalculateThrow)
    /\ WF_vars(CalculatePush)
    /\ WF_vars(Catch)

(***************************************************************************)
(* classifyIntent on a result of the pipeline (AnalysisResults.tsx lines   *)
(* 160-162): the prompt is the one derived from the URL (useAnalyzer.ts    *)
(* lines 162, 182) and the page text is the first 300 characters scraped.  *)
(***************************************************************************)
UrlHow == TrainTimes \o <<"h","o","w","-","t","o","-","b">>

\* three informational and three navigational keywords
RouteIntentWords ==
    { <<"h","o","w">>, <<"w","h","A","T">>, <<"w","h","e","n">>,
      <<"l","o","g","i","n">>, <<"a","c","c","o","u","n","t">>,
      <<"w","e","b","s","i","t","e">> }

InitRouteIntent ==
    /\ HookInit
    /\ args \in [url : {UrlMatched, UrlOtherRoute, UrlNoSlug, UrlHow},
                 pageContent : {JoinWords(ws) : ws \in SeqsUpTo(RouteIntentWords, MaxWords)}]
    /\ ret = NotCalled

CallRouteIntent ==
    /\ ~ret.called
    /\ ret' = Returned(
          LET result == [prompt |-> extractRoutePrompt(args.url),
                         pageText |-> SubstringTo(args.pageContent, ResultTextLimit)]
          IN [prompt |-> result.prompt,
              intentType |-> classifyIntent(result.prompt, result.pageText)])
    /\ UNCHANGED <<hookVars, fileVars, pc, localVars, historyVars, args, exportLog, pc2>>

SpecRouteIntent == InitRouteIntent /\ [][CallRouteIntent]_vars

(***************************************************************************)
(* startAnalysis invoked a second time while an invocation is under way.   *)
(* The hook returns startAnalysis without a guard (lines 129, 235-242);    *)
(* both invocations write the same isAnalyzing, progress, results and      *)
(* steps.  The second invocation is given a URL list that cannot be read,  *)
(* so it runs lines 130-139 and then the catch and finally blocks.         *)
(***************************************************************************)
\* invocations that run the whole pipeline in the overlap specification
MaxOverlapRuns == 1

\* lines 130-139 of the second invocation
StartOverlapping ==
    /\ pc # "idle"
    /\ pc2 = "none"
    /\ isAnalyzing' = TRUE
    /\ progress' = Frac(10, 1)
    /\ progressLog' = progressLog \o <<Frac(0, 1), Frac(10, 1)>>
    /\ results' = <<>>
    /\ steps' = updateStep(steps, "parse", "running")
    /\ pc2' = "parseCSV"
    /\ UNCHANGED <<fileVars, pc, localVars, outcome, everyFallback, scrapeWarned,
                   runs, entered, args, ret, exportLog>>

\* line 139 of the second invocation: file.text() rejects
OverlappingParseCSVThrow ==
    /\ pc2 = "parseCSV"
    /\ pc2' = "thrown"
    /\ UNCHANGED <<hookVars, fileVars, pc, localVars, historyVars, args, ret, exportLog>>

\* lines 200-207 of the second invocation
OverlappingCatch ==
    /\ pc2 = "thrown"
    /\ steps' = FailRunning(steps)
    /\ isAnalyzing' = FALSE
    /\ pc2' = "ended"
    /\ UNCHANGED <<progress, results, fileVars, pc, localVars, historyVars,
                   args, ret, exportLog>>

NextOverlap ==
    \/ \E csv \in BatchCsvFiles, json \in BatchJsonFiles :
          runs < MaxOverlapRuns /\ StartAnalysis(csv, json)
    \/ StartOverlapping
    \/ OverlappingParseCSVThrow
    \/ OverlappingCatch
    \/ ParseCSVReturn
    \/ ParseCSVThrow
    \/ ParseJSONThrow
    \/ ParseJSONReturn
    \/ \E resp \in BatchProxyResponses : ScrapeReturn(resp)
    \/ MatchThrow
    \/ MatchSkip
    \/ MatchEmbed
    \/ \E resp \in BatchEmbeddingResponses, rnd \in BatchRandomVectors :
          PageEmbeddingReturn(resp, rnd)
    \/ \E resp \in BatchEmbeddingResponses, rnd \in BatchRandomVectors :
          GptEmbeddingReturn(resp, rnd)
    \/ CalculateThrow
    \/ CalculatePush
    \/ Catch

SpecOverlap == Init /\ [][NextOverlap]_vars

(***************************************************************************)
(* The properties.  They are stated with definitions of their own, not     *)
(* with the operators of the model.                                        *)
(***************************************************************************)
Lowered(s) ==
    [k \in 1..Len(s) |->
        IF s[k] \in {"A", "B", "O", "S", "T"}
        THEN CHOOSE c \in {"a", "b", "o", "s", "t"} :
                <<s[k], c>> \in {<<"A","a">>, <<"B","b">>, <<"O","o">>, <<"S","s">>, <<"T","t">>}
        ELSE s[k]]

\* t is a part of s
IsPartOf(t, s) == \E a \in 1..(Len(s) + 1), b \in 0..Len(s) : SubSeq(s, a, b) = t

\* a missing field counts as the empty string
FieldOf(x) == IF x = UndefinedStr THEN <<>> ELSE x

\* the symmetric substring test of the Response Matcher, up to case
Satisfies(item, prompt) ==
    \/ IsPartOf(Lowered(FieldOf(item.prompt)), Lowered(prompt))
    \/ IsPartOf(Lowered(prompt), Lowered(FieldOf(item.prompt)))

SomeSatisfies(items, prompt) == \E k \in 1..Len(items) : Satisfies(items[k], prompt)

FirstSatisfying(items, prompt) ==
    CHOOSE k \in 1..Len(items) :
        /\ Satisfies(items[k], prompt)
        /\ \A j \in 1..(k - 1) : ~Satisfies(items[j], prompt)

\* the answer the first satisfying record gives, empty when there is none
AnswerFor(items, prompt) ==
    IF SomeSatisfies(items, prompt)
    THEN FieldOf(items[FirstSatisfying(items, prompt)].response)
    ELSE <<>>

\* the URLs and the corpus of the run that was started last
RunUrls == parseCSV(csvFile.lines)
RunItems == jsonFile.items
WellFormedInputs == csvFile.readable /\ jsonFile.kind = "array"

\* how many URLs of the run have some satisfying record, how many an answer
SatisfiedCount ==
    Cardinality({k \in 1..Len(RunUrls) :
                    SomeSatisfies(RunItems, extractRoutePrompt(RunUrls[k]))})
AnsweredCount ==
    Cardinality({k \in 1..Len(RunUrls) :
                    AnswerFor(RunItems, extractRoutePrompt(RunUrls[k])) # <<>>})

RunCompleted == pc = "idle" /\ outcome = "completed"
RunFailed == pc = "idle" /\ outcome = "failed"

FracLeq(x, y) == x.num * y.den <= y.num * x.den
IsWhole(x) == x.num % x.den = 0

\* C1 (as claimed): a URL whose derived prompt is empty is never added to
\* the results: every accumulated and every published result has a
\* non-empty prompt.
C1_EmptyPromptDropped ==
    /\ \A k \in 1..Len(analysisResults) : analysisResults[k].prompt # <<>>
    /\ \A k \in 1..Len(results) : results[k].prompt # <<>>

\* C2: a URL whose derived prompt no record of the corpus satisfies is
\* dropped without an error: the step that handles it appends no result,
\* raises nothing, sets no stage to error and goes on to the next URL or to
\* the end of the run; and a completed run has at most one result per URL
\* that some record satisfies, so fewer results than URLs when a URL is
\* dropped.
C2_SkipStep ==
    (/\ pc = "scraped"
     /\ jsonData.kind = "array"
     /\ ~SomeSatisfies(jsonData.items, extractRoutePrompt(urls[i])))
    => /\ pc' \in {"scrape", "idle"}
       /\ pc' = "scrape" => (i' = i + 1 /\ analysisResults' = analysisResults)
       /\ pc' = "idle" => (outcome' = "completed" /\ results' = analysisResults)
       /\ \A id \in StepIds : steps'[id] = "error" => steps[id] = "error"

C2_Completed ==
    RunCompleted =>
        /\ Len(results) <= SatisfiedCount
        /\ SatisfiedCount < Len(RunUrls) => Len(results) < Len(RunUrls)
        /\ \A id \in StepIds : steps[id] # "error"

C2_NoMatchDropped == [](C2_Completed) /\ [][C2_SkipStep]_vars

C2_Witness ==
    /\ RunCompleted
    /\ Len(results) >= 1
    /\ Len(results) < Len(RunUrls)
    /\ \E k \in 1..Len(RunUrls) :
          /\ extractRoutePrompt(RunUrls[k]) # <<>>
          /\ ~SomeSatisfies(RunItems, extractRoutePrompt(RunUrls[k]))

\* C3: for a non-empty prompt that no record of the corpus satisfies, the
\* Response Matcher returns the empty answer.
C3_UnrelatedNoMatch ==
    (/\ ret.called
     /\ args.prompt # <<>>
     /\ ~SomeSatisfies(args.jsonData, args.prompt))
    => ret.value = <<>>

C3_Witness ==
    /\ ret.called
    /\ args.prompt # <<>>
    /\ Len(args.jsonData) = 2
    /\ \A k \in 1..2 : args.jsonData[k].response = <<"X">>
    /\ ~SomeSatisfies(args.jsonData, args.prompt)
    /\ ret.value = <<>>

\* C4: for a non-empty prompt, the Response Matcher returns the response of
\* the first record, in corpus order, that satisfies the test; a later
\* satisfying record never wins.
C4_FirstMatchWins ==
    (/\ ret.called
     /\ args.prompt # <<>>
     /\ SomeSatisfies(args.jsonData, args.prompt))
    => ret.value = FieldOf(args.jsonData[FirstSatisfying(args.jsonData, args.prompt)].response)

C4_Witness ==
    /\ ret.called
    /\ args.prompt # <<>>
    /\ Len(args.jsonData) = 2
    /\ Satisfies(args.jsonData[1], args.prompt)
    /\ Satisfies(args.jsonData[2], args.prompt)
    /\ args.jsonData[1].response = <<"X">>
    /\ args.jsonData[2].response = <<"Y">>
    /\ ret.value = <<"X">>

\* C5: when an exception escapes the batch, every stage that is running at
\* that moment becomes error, every other stage keeps its status, the
\* published results are and stay empty, and the run ends with
\* isAnalyzing = false.
C5_CatchStep ==
    pc = "thrown" =>
        /\ \A id \in StepIds :
              steps'[id] = (IF steps[id] = "running" THEN "error" ELSE steps[id])
        /\ results = <<>>
        /\ results' = <<>>
        /\ isAnalyzing' = FALSE
        /\ pc' = "idle"

C5_FailureDiscards == [][C5_CatchStep]_vars

C5_Witness ==
    /\ RunFailed
    /\ ~isAnalyzing
    /\ results = <<>>
    /\ Len(progressLog) >= 6
    /\ steps["parse"] = "completed"
    /\ steps["scrape"] = "error"
    /\ steps["calculate"] = "error"

\* C6 (as claimed): generateEmbedding returns a numeric vector for every
\* outcome of the embedding service, and no outcome of it aborts the batch.
C6_EmbeddingAlwaysVector ==
    /\ embPage.st \in {"none", "pending", "vector"}
    /\ embGpt.st \in {"none", "pending", "vector"}
    /\ pc = "thrown" => steps["embed"] # "running"

\* C7: if every embedding request of a batch with readable inputs fails and
\* falls back to a synthetic vector, nothing is thrown, and the run ends
\* completed with one result for every URL that has an answer, progress 100
\* and every stage completed.
C7_FallbackCompletes ==
    (everyFallback /\ WellFormedInputs /\ runs > 0) =>
        /\ pc # "thrown"
        /\ pc = "idle" =>
              /\ outcome = "completed"
              /\ Len(results) = AnsweredCount
              /\ progress = Frac(100, 1)
              /\ \A id \in StepIds : steps[id] = "completed"

C7_Witness ==
    /\ everyFallback
    /\ RunCompleted
    /\ Len(results) = 2
    /\ progress = Frac(100, 1)

\* C8: a failure of the page fetch never leaves scrapePageContent: the
\* function returns the placeholder, which names the URL, the run goes on,
\* a URL that has an answer goes to the embedding stage with the placeholder
\* as its page text and its result carries it, and a completed run holds one
\* result for every URL that has an answer.
NewestResult == IF pc' = "idle" THEN results'[Len(results')] ELSE analysisResults'[Len(analysisResults')]

C8_Step ==
    /\ pc = "scrape" => pc' = "scraped"
    /\ (pc' = "scraped" /\ scrapeWarned') =>
          /\ pageContent' = SampleContentFor \o urls[i] \o PlaceholderTail
          /\ IsPartOf(urls[i], pageContent')
    /\ (/\ pc = "scraped"
        /\ scrapeWarned
        /\ jsonData.kind = "array"
        /\ AnswerFor(jsonData.items, extractRoutePrompt(urls[i])) # <<>>)
       => (pc' = "embed" /\ pageContent' = pageContent)
    /\ (pc = "embed" /\ scrapeWarned /\ pc' \in {"scrape", "idle"}) =>
          /\ NewestResult.url = urls[i]
          /\ NewestResult.pageText = SampleContentFor \o urls[i] \o PlaceholderTail

C8_Completed == RunCompleted => Len(results) = AnsweredCount

C8_ScrapeFailureContained == [](C8_Completed) /\ [][C8_Step]_vars

C8_Witness ==
    /\ RunCompleted
    /\ \E k \in 1..Len(results) :
          /\ results[k].pageText = SampleContentFor \o results[k].url \o PlaceholderTail
          /\ results[k].prompt # <<>>

\* C9 (as claimed): every value progress takes in a run is an integer
\* between 0 and 100, and progress never decreases from one update to the
\* next.
C9_ProgressIntegerMonotone ==
    \A k \in 1..Len(progressLog) :
        /\ IsWhole(progressLog[k])
        /\ FracLeq(Frac(0, 1), progressLog[k])
        /\ FracLeq(progressLog[k], Frac(100, 1))
        /\ k > 1 => FracLeq(progressLog[k - 1], progressLog[k])

\* C10 (as claimed): calculatePriorityScore returns a value between 0 and
\* 100 for every input, an undefined (NaN) similarity included.
C10_PriorityBounded ==
    ret.called =>
        /\ ~ret.value.nan
        /\ 0 <= ret.value.num
        /\ ret.value.num <= 100 * ret.value.den

\* comparisons of numbers num/den with a positive den
NumLess(x, y) == ~x.nan /\ ~y.nan /\ x.num * y.den < y.num * x.den
NumLeq(x, y) == ~x.nan /\ ~y.nan /\ x.num * y.den <= y.num * x.den

\* C11 (as claimed): with the other factors fixed, the score for the lower
\* of two similarities is strictly greater than the score for the higher.
C11_StrictlyMonotone ==
    (ret.called /\ NumLess(args.result.similarity, args.other))
    => NumLess(ret.value[2], ret.value[1])

\* C11 (amended): with the other factors fixed, the score for the lower of
\* two similarities is at least the score for the higher, and strictly
\* greater whenever the score for the lower is below the cap of 100.
C11_MonotoneBelowCap ==
    (ret.called /\ NumLess(args.result.similarity, args.other))
    => /\ NumLeq(ret.value[2], ret.value[1])
       /\ NumLess(ret.value[1], [nan |-> FALSE, num |-> 100, den |-> 1])
             => NumLess(ret.value[2], ret.value[1])

C11_Witness ==
    /\ ret.called
    /\ NumLess(args.result.similarity, args.other)
    /\ args.result.intentType = "Transactional"
    /\ NumLess(ret.value[2], ret.value[1])
    /\ NumLess(ret.value[1], [nan |-> FALSE, num |-> 100, den |-> 1])

\* how many keywords of the list are part of the text, up to case
CountIn(keywords, text) ==
    Cardinality({k \in 1..Len(keywords) : IsPartOf(keywords[k], Lowered(text))})

IntentText == args.prompt \o <<" ">> \o args.pageText
TCount == CountIn(TransactionalKeywords, IntentText)
ICount == CountIn(InformationalKeywords, IntentText)
NCount == CountIn(NavigationalKeywords, IntentText)

\* C12: classifyIntent returns Mixed for every text with at least one
\* transactional and at least one informational keyword, whatever the
\* navigational count, and Navigational for every text with no keyword of
\* any of the three lists.
C12_MixedAndDefault ==
    ret.called =>
        /\ (TCount > 0 /\ ICount > 0) => ret.value = "Mixed"
        /\ (TCount = 0 /\ ICount = 0 /\ NCount = 0) => ret.value = "Navigational"

C12_Witness ==
    /\ ret.called
    /\ TCount = 1
    /\ ICount = 1
    /\ NCount = 2
    /\ ret.value = "Mixed"

\* the category with the highest count, Transactional before Informational
\* before Navigational on equal highest counts, Navigational when all
\* counts are zero
HighestCount ==
    IF TCount = 0 /\ ICount = 0 /\ NCount = 0 THEN "Navigational"
    ELSE IF TCount >= ICount /\ TCount >= NCount THEN "Transactional"
    ELSE IF ICount >= NCount THEN "Informational"
    ELSE "Navigational"

\* C13 (as claimed): when the text is not Mixed, classifyIntent returns the
\* category with the highest keyword count, and on equal highest counts
\* Transactional wins over Informational over Navigational.
C13_HighestCountWins ==
    (ret.called /\ ~(TCount > 0 /\ ICount > 0)) => ret.value = HighestCount

\* the positions of the URL where the literal train-times/ stands before a
\* character that is not a slash, and the slug that starts after the first
SegmentAt(url, p) ==
    /\ p + 12 <= Len(url)
    /\ \A k \in 1..12 : url[p + k - 1] = TrainTimes[k]
    /\ url[p + 12] # "/"
HasSegment(url) == \E p \in 1..Len(url) : SegmentAt(url, p)
SlugStart(url) ==
    12 + CHOOSE p \in 1..Len(url) :
            SegmentAt(url, p) /\ \A r \in 1..(p - 1) : ~SegmentAt(url, r)
SlugEnd(url) ==
    CHOOSE e \in SlugStart(url)..Len(url) :
        /\ \A k \in SlugStart(url)..e : url[k] # "/"
        /\ e = Len(url) \/ url[e + 1] = "/"
SlugOf(url) == Lowered(SubSeq(url, SlugStart(url), SlugEnd(url)))

\* the places where the slug can be cut into origin, -to-, destination
Cuts(slug) == {k \in 1..(Len(slug) - 3) : SubSeq(slug, k, k + 3) = ToSep}
PromptOfCut(slug, k) ==
    Cheapest \o SubSeq(slug, 1, k - 1) \o ToWord
             \o SubSeq(slug, k + 4, Len(slug)) \o TrainTicketsOnline

\* C14 (as claimed): extractRoutePrompt returns the empty string when the
\* URL has no train-times/<slug> segment or the slug lacks -to-, and when
\* the slug has the form <origin>-to-<destination> it returns
\* "cheapest <origin> to <destination> train tickets online" (the tokens in
\* lower case) for a cut of the slug into origin and destination.
C14_RoutePrompt ==
    ret.called =>
        IF HasSegment(args.url) /\ Cuts(SlugOf(args.url)) # {}
        THEN \E k \in Cuts(SlugOf(args.url)) :
                ret.value = PromptOfCut(SlugOf(args.url), k)
        ELSE ret.value = <<>>

\* the same for the slugs that hold the separator at most once
C14_SingleSeparator ==
    (ret.called /\ (HasSegment(args.url) => Cardinality(Cuts(SlugOf(args.url))) <= 1))
    => IF HasSegment(args.url) /\ Cuts(SlugOf(args.url)) # {}
       THEN \E k \in Cuts(SlugOf(args.url)) :
               ret.value = PromptOfCut(SlugOf(args.url), k)
       ELSE ret.value = <<>>

\* the running count of TRUE in a sequence of booleans, computed by halves
RECURSIVE RunningCount(_)
RunningCount(flags) ==
    IF flags = <<>> THEN <<>>
    ELSE IF Len(flags) = 1 THEN <<IF flags[1] THEN 1 ELSE 0>>
    ELSE LET half == Len(flags) \div 2
             left == RunningCount(SubSeq(flags, 1, half))
             right == RunningCount(SubSeq(flags, half + 1, Len(flags)))
         IN left \o [k \in 1..Len(right) |-> right[k] + left[half]]

\* position p of the text holds the character c outside of quotes: an even
\* number of quotes precedes it
QuotesUpTo(text) == RunningCount([k \in 1..Len(text) |-> text[k] = "\""])
OutsideAt(text, c) ==
    LET quotes == QuotesUpTo(text)
    IN [k \in 1..Len(text) |-> text[k] = c /\ quotes[k] % 2 = 0]

\* the pieces of the text between the positions flagged as separators
PiecesBetween(text, isSep) ==
    LET count == RunningCount(isSep)
        n == IF text = <<>> THEN 0 ELSE count[Len(text)]
        sepAt(r) == CHOOSE q \in 1..Len(text) : isSep[q] /\ count[q] = r
    IN [r \in 1..(n + 1) |->
           SubSeq(text,
                  IF r = 1 THEN 1 ELSE sepAt(r - 1) + 1,
                  IF r = n + 1 THEN Len(text) ELSE sepAt(r) - 1)]

\* the rows of a file and the fields of a row, as a reader of quoted
\* comma-separated text cuts them
CsvRows(text) == PiecesBetween(text, OutsideAt(text, "\n"))
CsvFields(row) == PiecesBetween(row, OutsideAt(row, ","))

\* the field is the value wrapped in quotes, each quote of the value doubled
IsQuotedField(field, value) ==
    LET before == <<0>> \o QuotesUpTo(value)
    IN /\ Len(field) = Len(value) + before[Len(value) + 1] + 2
       /\ field[1] = "\""
       /\ field[Len(field)] = "\""
       /\ \A k \in 1..Len(value) :
             /\ field[1 + k + before[k]] = value[k]
             /\ value[k] = "\"" => field[2 + k + before[k]] = "\""

\* the field is wrapped in quotes and holds no quote inside
IsPlainQuotedField(field) ==
    /\ Len(field) >= 2
    /\ field[1] = "\""
    /\ field[Len(field)] = "\""
    /\ \A k \in 2..(Len(field) - 1) : field[k] # "\""

ExportedFileOf(text, rs) ==
    LET rows == CsvRows(text)
    IN /\ Len(rows) = Len(rs) + 1
       /\ LET head == CsvFields(rows[1])
          IN /\ Len(head) = 5
             /\ \A c \in 1..5 : IsQuotedField(head[c], ExportHeader[c])
       /\ \A k \in 1..Len(rs) :
             LET fields == CsvFields(rows[k + 1])
             IN /\ Len(fields) = 5
                /\ IsQuotedField(fields[1], rs[k].url)
                /\ IsQuotedField(fields[2], rs[k].prompt)
                /\ IsQuotedField(fields[3], rs[k].pageText)
                /\ IsQuotedField(fields[4], rs[k].gptAnswer)
                /\ IsPlainQuotedField(fields[5])

\* C15: for N >= 1 results the exported file has exactly N + 1 rows, the
\* fixed header row and then one row per result in result order; every
\* field is wrapped in double quotes and every double quote of a field is
\* doubled.
C15_ExportRowsQuoted ==
    \A e \in 1..Len(exportLog) :
        (exportLog[e].produced /\ Len(results) >= 1)
        => ExportedFileOf(exportLog[e].text, results)

C15_Witness ==
    /\ Len(results) = 2
    /\ \E k \in 1..Len(results[1].pageText) : results[1].pageText[k] = "\""
    /\ \E k \in 1..Len(results[2].pageText) : results[2].pageText[k] = "\n"
    /\ \E e \in 1..Len(exportLog) : exportLog[e].produced

\* C16: exportResults produces no file when the result set is empty, and a
\* call of it never changes isAnalyzing, progress, the stage statuses or
\* results.
C16_ExportStep ==
    exportLog' # exportLog =>
        /\ isAnalyzing' = isAnalyzing
        /\ progress' = progress
        /\ steps' = steps
        /\ results' = results
        /\ Len(exportLog') = Len(exportLog) + 1
        /\ results = <<>> => ~exportLog'[Len(exportLog')].produced

C16_ExportFrame == [][C16_ExportStep]_vars

C16_Witness ==
    /\ isAnalyzing
    /\ progress.num > 40
    /\ Len(analysisResults) = 1
    /\ Len(exportLog) = 1
    /\ ~exportLog[1].produced

\* two similarities are the same number, or both undefined
SameNumber(x, y) ==
    \/ x.nan /\ y.nan
    \/ /\ ~x.nan
       /\ ~y.nan
       /\ x.dot = y.dot
       /\ x.na * x.nb = y.na * y.nb

IsZeroVector(v) == \A k \in 1..Len(v) : v[k] = 0

\* C17 (as claimed): cosineSimilarity(a, b) equals cosineSimilarity(b, a)
\* for all pairs of vectors, pairs of different lengths included.
C17_Symmetric ==
    ret.called => SameNumber(ret.value[1], ret.value[2])

\* the same for the pairs of equal length
C17_SymmetricEqualLength ==
    (ret.called /\ Len(args.a) = Len(args.b)) => SameNumber(ret.value[1], ret.value[2])

\* C18: cosineSimilarity yields NaN whenever at least one of the two
\* vectors has zero magnitude, and a defined number whenever both are
\* non-zero and of equal length.
C18_ZeroMagnitudeUndefined ==
    ret.called =>
        /\ (IsZeroVector(args.a) \/ IsZeroVector(args.b)) => ret.value[1].nan
        /\ (/\ ~IsZeroVector(args.a)
            /\ ~IsZeroVector(args.b)
            /\ Len(args.a) = Len(args.b)) => ~ret.value[1].nan

C18_Witness ==
    /\ ret.called
    /\ Len(args.a) = 2
    /\ Len(args.b) = 2
    /\ ~IsZeroVector(args.a)
    /\ IsZeroVector(args.b)
    /\ ret.value[1].nan
    /\ ret.value[2].nan

\* C19 (as claimed): cosineSimilarity(v, v) equals 1 for every non-zero
\* vector v.
C19_SelfSimilarityOne ==
    (ret.called /\ args.a = args.b /\ ~IsZeroVector(args.a)) => IsOne(ret.value[1])

\* the sum of the squares of the components is the square of a whole number
HasWholeMagnitude(v) ==
    \E r \in 1..(2 * Len(v)) :
        r * r = Cardinality({k \in 1..Len(v) : v[k] \in {-1, 1}})
                + 4 * Cardinality({k \in 1..Len(v) : v[k] \in {-2, 2}})

\* C19 (amended): cosineSimilarity(v, v) is 1 up to the rounding of the
\* floating-point product and division (1 or a neighbouring double) for
\* every non-zero vector v, and exactly 1 when the magnitude of v is a whole
\* number.
C19_SelfSimilarityRounded ==
    (ret.called /\ args.a = args.b /\ ~IsZeroVector(args.a))
    => /\ IsOneRounded(ret.value[1])
       /\ HasWholeMagnitude(args.a) => IsOne(ret.value[1])

C19_Witness ==
    /\ ret.called
    /\ args.a = <<1, 1>>
    /\ args.b = <<1, 1>>
    /\ IsOneRounded(ret.value[1])
    /\ ~IsOne(ret.value[1])

InFlight(call) == call.st = "pending"
Issued(call) == call.st # "none"

\* C20: the URLs of a run are processed one after another: the scrape of
\* the next URL starts only when the current one has been skipped or its
\* result appended; the embedding requests in flight are always the two of
\* the current URL, issued together for its page text and its answer; and
\* the similarity is computed only when both have returned.
C20_State ==
    /\ (InFlight(embPage) \/ InFlight(embGpt)) => pc = "embed"
    /\ pc = "embed" =>
          /\ Issued(embPage) /\ Issued(embGpt)
          /\ embPage.input = pageContent
          /\ embGpt.input = gptResponse
          /\ gptResponse = AnswerFor(jsonData.items, extractRoutePrompt(urls[i]))
    /\ pc \in {"scrape", "scraped"} =>
          /\ ~Issued(embPage) /\ ~Issued(embGpt)
          /\ i \in 1..Len(urls)
          /\ Len(analysisResults) <= i - 1

C20_Step ==
    /\ (pc # "embed" /\ pc' = "embed") =>
          (pc = "scraped" /\ InFlight(embPage') /\ InFlight(embGpt') /\ i' = i)
    /\ (pc = "embed" /\ pc' # "embed") =>
          (~InFlight(embPage) /\ ~InFlight(embGpt))
    /\ analysisResults' # analysisResults /\ pc' # "idle" =>
          /\ pc = "embed"
          /\ ~InFlight(embPage) /\ ~InFlight(embGpt)
          /\ Len(analysisResults') = Len(analysisResults) + 1
          /\ analysisResults'[Len(analysisResults')].url = urls[i]
    /\ (pc' = "scrape" /\ pc # "parseJSON") =>
          /\ pc \in {"scraped", "embed"}
          /\ i' = i + 1
          /\ pc = "scraped" => analysisResults' = analysisResults
          /\ pc = "embed" => Len(analysisResults') = Len(analysisResults) + 1
    /\ (pc' = "scrape" /\ pc = "parseJSON") => i' = 1

C20_SequentialUrls == [](C20_State) /\ [][C20_Step]_vars

C20_Witness ==
    /\ pc = "embed"
    /\ i = 3
    /\ Len(analysisResults) = 1
    /\ ~InFlight(embPage)
    /\ InFlight(embGpt)

\* the lines of the uploaded list that hold something else than blanks, the
\* first of them being the header
HasText(line) == \E k \in 1..Len(line) : line[k] \notin {" ", "\t", "\r"}
TextLines == SelectSeq(csvFile.lines, HasText)
DataRows == SubSeq(TextLines, 2, Len(TextLines))
\* the data rows that are consumed: the first five
ConsumedRows == SubSeq(DataRows, 1, IF Len(DataRows) < 5 THEN Len(DataRows) ELSE 5)

\* the URL of a row: its characters before the first comma, quotes and
\* blanks around it dropped
BeforeComma(line) ==
    IF \E k \in 1..Len(line) : line[k] = ","
    THEN SubSeq(line, 1, (CHOOSE k \in 1..Len(line) :
                            line[k] = "," /\ \A j \in 1..(k - 1) : line[j] # ",") - 1)
    ELSE line
IsUrlChar(c) == c \notin {" ", "\t", "\r", "\""}
UrlOfRow(line) == SelectSeq(BeforeComma(line), IsUrlChar)

\* the results name, in order, rows of increasing position among the
\* consumed rows: pick[k] is the row of result k
IsOrderedPick(rs, rows) ==
    \E pick \in [1..Len(rs) -> 1..Len(rows)] :
        /\ \A k \in 1..Len(rs) : rs[k].url = UrlOfRow(rows[pick[k]])
        /\ \A k \in 1..(Len(rs) - 1) : pick[k] < pick[k + 1]

\* C21: after every successful run the results are an order-preserving
\* subsequence of the URLs of the first 5 data rows of the list, the header
\* row never among them: at most one result per consumed row and at most 5
\* in total; and during a run the accumulating list is only appended to.
C21_State ==
    RunCompleted =>
        /\ Len(results) <= 5
        /\ Len(results) <= Len(ConsumedRows)
        /\ IsOrderedPick(results, ConsumedRows)

C21_Step ==
    (pc # "idle" /\ pc' # "idle") =>
        \/ analysisResults' = analysisResults
        \/ /\ Len(analysisResults') = Len(analysisResults) + 1
           /\ SubSeq(analysisResults', 1, Len(analysisResults)) = analysisResults

C21_ResultsFollowRows == [](C21_State) /\ [][C21_Step]_vars

C21_Witness ==
    /\ RunCompleted
    /\ Len(DataRows) = 6
    /\ Len(results) = 4
    /\ UrlOfRow(DataRows[1]) # results[1].url
    /\ UrlOfRow(DataRows[6]) = results[1].url

\* C22: in every run, a stage becomes 'completed' only after the run has set
\* it to 'running': no step of startAnalysis turns a stage that the run never
\* entered into 'completed', also when the URL list is empty or no URL has a
\* matching answer.
C22_Step ==
    \A id \in StepIds :
        (steps'[id] = "completed" /\ steps[id] # "completed") => id \in entered'

C22_CompletedOnlyFromRunning == [][C22_Step]_vars

\* C28: in a run that follows an earlier one, during the run and after it, a
\* stage shows 'completed' or 'error' only if this run has entered the stage.
C28_StatusesOfThisRun ==
    runs >= 2 =>
        \A id \in StepIds : steps[id] \in {"completed", "error"} => id \in entered

\* the brands of the fixed set that a text references, up to case
Brands == {Trainline, Eurostar, Omio}
BrandsIn(text) == {b \in Brands : IsPartOf(b, Lowered(text))}

\* C23: entityMismatch is true only when the answer references a brand of the
\* fixed set, the page references a different brand of the set, and the page
\* references no brand that the answer references.
C23_MismatchDisjointBrands ==
    (ret.called /\ ret.value.entityMismatch) =>
        /\ \E a \in BrandsIn(args.gptAnswer), p \in BrandsIn(args.pageText) : a # p
        /\ BrandsIn(args.gptAnswer) \cap BrandsIn(args.pageText) = {}

\* C23 (auxiliary): without the requirement that the brands do not overlap
C23_MismatchDifferentBrands ==
    (ret.called /\ ret.value.entityMismatch) =>
        \E a \in BrandsIn(args.gptAnswer), p \in BrandsIn(args.pageText) : a # p

\* the characters that end a word: white space and punctuation
Punctuation == {",", ".", ";", ":", "!", "?"}
WordBreaks == {" ", "\t", "\r", "\n"} \cup Punctuation

\* term occurs in text as a whole word
OccursAsWord(term, text) ==
    \E a \in 1..Len(text) :
        LET b == a + Len(term) - 1
        IN /\ b <= Len(text)
           /\ SubSeq(text, a, b) = term
           /\ a = 1 \/ text[a - 1] \in WordBreaks
           /\ b = Len(text) \/ text[b + 1] \in WordBreaks

ExpectedGaps ==
    {t \in {CriticalKeywords[k] : k \in 1..Len(CriticalKeywords)} :
        /\ OccursAsWord(t, Lowered(args.gptAnswer))
        /\ ~OccursAsWord(t, Lowered(args.pageText))}

ReturnedGaps == {ret.value.keywordGaps[k] : k \in 1..Len(ret.value.keywordGaps)}

\* C24: keywordGaps is exactly the set of critical terms that occur as a whole
\* word, up to case and also next to punctuation, in the answer and do not
\* occur as a whole word in the page text.
C24_KeywordGapsExact == ret.called => ReturnedGaps = ExpectedGaps

\* C24 (auxiliary): the same for texts without punctuation
C24_KeywordGapsPlainWords ==
    (/\ ret.called
     /\ \A k \in 1..Len(args.gptAnswer) : args.gptAnswer[k] \notin Punctuation
     /\ \A k \in 1..Len(args.pageText) : args.pageText[k] \notin Punctuation)
    => ReturnedGaps = ExpectedGaps

\* the terms of the priority score other than the similarity term
ScoreBonus ==
    50 + (IF args.intentType = "Transactional" THEN 20 ELSE 0)
       + (IF args.intentType = "Mixed" THEN 15 ELSE 0)
       + 5 * Len(args.keywordGaps)
       + (IF args.entityMismatch THEN 15 ELSE 0)
       + (IF args.sentenceStructureIssue THEN 10 ELSE 0)

\* the score times the denominator of the similarity
ScoreTimesDen ==
    LET d == args.similarity.den
        raw == ScoreBonus * d + (d - args.similarity.num) * 40
    IN IF raw > 100 * d THEN 100 * d ELSE raw

\* C25: the priority score of a result is min(100, 50 + (1 - similarity) * 40
\* + 20 if Transactional + 15 if Mixed + 5 per keyword gap + 15 if entity
\* mismatch + 10 if structural mismatch), a function of these five fields
\* only (not a number when the similarity is not a number).
C25_PriorityFormula ==
    ret.called =>
        IF args.similarity.nan THEN ret.value.nan
        ELSE /\ ~ret.value.nan
             /\ ret.value.num * args.similarity.den = ScoreTimesDen * ret.value.den

C25_Witness ==
    /\ ret.called
    /\ args.url = UrlOtherRoute
    /\ args.intentType = "Mixed"
    /\ Len(args.keywordGaps) = 2
    /\ args.entityMismatch
    /\ ~args.sentenceStructureIssue
    /\ ~args.similarity.nan
    /\ args.similarity.num = args.similarity.den
    /\ ~ret.value.nan
    /\ ret.value.num = 90 * ret.value.den

\* the bucket of a similarity: Excellent from 0.8, Good from 0.7, Fair from
\* 0.6, Poor otherwise, which includes a similarity that is not a number
BucketOf(s) ==
    IF s.nan THEN "Poor"
    ELSE IF 10 * s.num >= 8 * s.den THEN "Excellent"
    ELSE IF 10 * s.num >= 7 * s.den THEN "Good"
    ELSE IF 10 * s.num >= 6 * s.den THEN "Fair"
    ELSE "Poor"

InBucket(label) == Cardinality({k \in 1..Len(args) : BucketOf(args[k]) = label})

CountsSum ==
    ret.value.counts.excellent + ret.value.counts.good
        + ret.value.counts.fair + ret.value.counts.poor

\* C26: every result is counted in exactly one of the four buckets, so the
\* counts sum to the number of results; a result whose similarity is not a
\* number is counted as Poor and labelled Poor.
C26_BucketsPartition ==
    ret.called =>
        /\ CountsSum = Len(args)
        /\ ret.value.counts.excellent = InBucket("Excellent")
        /\ ret.value.counts.good = InBucket("Good")
        /\ ret.value.counts.fair = InBucket("Fair")
        /\ ret.value.counts.poor = InBucket("Poor")
        /\ \A k \in 1..Len(args) : ret.value.labels[k] = BucketOf(args[k])

\* C26 (auxiliary): the same for results whose similarities are all numbers
C26_NumbersPartition ==
    (ret.called /\ \A k \in 1..Len(args) : ~args[k].nan) =>
        /\ CountsSum = Len(args)
        /\ ret.value.counts.excellent = InBucket("Excellent")
        /\ ret.value.counts.good = InBucket("Good")
        /\ ret.value.counts.fair = InBucket("Fair")
        /\ ret.value.counts.poor = InBucket("Poor")
        /\ \A k \in 1..Len(args) : ret.value.labels[k] = BucketOf(args[k])

\* C26 (auxiliary): the label of every result is the claimed one
C26_LabelsAgree ==
    ret.called => \A k \in 1..Len(args) : ret.value.labels[k] = BucketOf(args[k])

\* C27: provided every external call settles, every started run ends with
\* isAnalyzing false, completed or failed; and isAnalyzing is true only while
\* an invocation is under way, so that it stays true only by waiting for a
\* call.
C27_RunEnds ==
    /\ [](isAnalyzing => pc # "idle")
    /\ isAnalyzing ~> (~isAnalyzing /\ pc = "idle" /\ outcome \in {"completed", "failed"})

C27_Witness ==
    /\ ~isAnalyzing
    /\ pc = "idle"
    /\ outcome = "failed"
    /\ steps["calculate"] = "error"
    /\ runs = 2

\* s begins with t, s ends with t
BeginsWith(s, t) == Len(t) <= Len(s) /\ SubSeq(s, 1, Len(t)) = t
EndsWith(s, t) == Len(t) <= Len(s) /\ SubSeq(s, Len(s) - Len(t) + 1, Len(s)) = t

\* C29: a result with a non-empty derived prompt has a prompt of the form
\* 'cheapest <origin> to <destination> train tickets online', and its intent
\* type is Mixed, Transactional or Navigational, never Informational,
\* whatever the page text.
C29_NeverInformational ==
    (ret.called /\ ret.value.prompt # <<>>) =>
        /\ BeginsWith(ret.value.prompt, <<"c","h","e","a","p","e","s","t"," ">>)
        /\ EndsWith(ret.value.prompt,
                    <<" ","t","r","a","i","n"," ","t","i","c","k","e","t","s",
                      " ","o","n","l","i","n","e">>)
        /\ IsPartOf(<<" ","t","o"," ">>, ret.value.prompt)
        /\ ret.value.intentType \in {"Mixed", "Transactional", "Navigational"}

C29_Witness ==
    /\ ret.called
    /\ ret.value.prompt # <<>>
    /\ CountIn(InformationalKeywords, args.pageContent) = 0
    /\ CountIn(NavigationalKeywords, args.pageContent) = 3
    /\ ret.value.intentType = "Navigational"

\* C30: isAnalyzing is true whenever an invocation of startAnalysis is under
\* way, also when a second invocation was started before the first ended.
C30_AnalyzingWhileUnderWay ==
    (pc # "idle" \/ pc2 \in {"parseCSV", "thrown"}) => isAnalyzing

=============================================================================
